---- MODULE Spec2Model ----
(***************************************************************************)
(* UECellTracker: supervisor and worker lifecycle, the NgControl worker    *)
(* with its DCI fetcher and sniffer process, the DCI bus, the ModelHandler *)
(* DCI ring buffer and the PBE-CC capacity calculation.                    *)
(*                                                                         *)
(* Specifications:                                                         *)
(*   Spec      lifecycle of supervisor, workers and sub-threads            *)
(*   SpecDci   the DCI bus between fetcher and subscribers                 *)
(*   SpecRtt   the downloader's RTT marker extraction                      *)
(*   SpecMatch the RNTI matcher's find_best_matching_rnti                  *)
(*   SpecFilter the RNTI matcher's apply_basic_filter                      *)
(*   SpecNg    the NgControl worker and its DCI fetcher in detail          *)
(*   SpecRing  DciRingBuffer push/slice          (model_handler.rs 37-75)  *)
(*   SpecCap   calculate_pbe_cc_capacity         (model_handler.rs 403-615)*)
(***************************************************************************)
EXTENDS Integers, Sequences, FiniteSets, TLC

(***************************************************************************)
(* Sizes.  The source sets MAX_DCI_ARRAY_SIZE = 10000 and                  *)
(* MAX_DCI_SLICE_SIZE = 1000 (model_handler.rs 22-23); the model runs the  *)
(* same code at a reduced size, keeping 0 < SLICE < ARRAY.                 *)
(***************************************************************************)
MAX_DCI_ARRAY_SIZE == 8
MAX_DCI_SLICE_SIZE == 3
MaxPush == 20

VARIABLES
    dci_buffer,     \* DciRingBuffer: [dci_array, dci_next]
    nof_pushed,     \* number of push calls so far; the k-th pushed item is k
    write_index,    \* index written by the last push (-1 before any push)
    slice_call      \* last slice call: [n, k, out] (k = pushes before it)

VARIABLES
    cap_in,         \* arguments of the capacity call: [target_rnti, nof_prb, dci_list, rnti_share_type]
    cap_out,        \* its result (NoResult before the call)
    tx_metric,      \* everything broadcast on the metric bus, in order
    metric_call     \* handle_calculate_metric: none, skipped (empty slice), done

VARIABLES
    sigint,             \* the SIGINT notifier flag
    main_pc,            \* position of main: wait_all_running, loop, match, returned, exited
    main_result,        \* what main returned: none, ok, err
    app_state,          \* main's app_state
    waiting_for,        \* wait_all_running's set of workers not yet seen Running
    running_from,       \* workers whose Running main has taken from their channel
    app_bus,            \* everything broadcast on tx_app_state, in order
    rx_app,             \* per worker, how much of app_bus its reader has consumed
    chan,               \* per worker, the status channel to main
    sent,               \* per worker, every status passed to send(), in order
    pc,                 \* per worker: start, wait, loop, join, done
    ngcontrol_state,    \* run's ngcontrol_state
    ng_process_option,  \* run's ng_process_option
    sniffer_alive,      \* whether a spawned sniffer process is running
    dci_state,          \* the fetcher thread: none, init, its LocalDciState, done
    to_fetcher,         \* channel tx_dci_thread -> rx_main_thread
    from_fetcher,       \* channel tx_main_thread -> rx_dci_thread
    last_cell_info,     \* cell source's last_cell_info
    nof_cell_updates,   \* number of cell infos broadcast so far
    cell_q,             \* cell infos broadcast and not yet read by ngcontrol
    gen_state,          \* the generator thread: none, run, done
    logger_state        \* run's logger_state

VARIABLES
    nof_parsed,         \* CellDci frames parsed so far; the k-th frame carries k
    tx_dci,             \* everything broadcast on the DCI bus, in order
    rx_dci,             \* per subscriber, how much of tx_dci its reader has consumed
    rx_dci_alive,       \* per subscriber, whether its reader still exists
    dci_received,       \* per subscriber, what its try_recv calls returned, in order
    fetcher_blocked,    \* the message of a blocking broadcast in progress (0: none)
    nof_bus_full,       \* how often try_broadcast found the bus full
    fetcher_alive,      \* FALSE once the fetcher thread has panicked
    last_frame          \* the UDP frame the last check_ngscope_message received

VARIABLES
    rtt_buffer,         \* the bytes given to the RTT extraction
    rtt_last,           \* last_rtt_us of try_to_decode_rtt
    rtt_extracted,      \* what try_to_extract_last_rtt(rtt_buffer) did
    rtt_decoded         \* what try_to_decode_rtt(rtt_buffer, rtt_last) returned

VARIABLES
    tc_cell_traffic,    \* TrafficCollection.cell_traffic: cell_id -> rnti -> UeTraffic
    tc_pattern,         \* TrafficCollection.traffic_pattern_features
    basic_filter_statistics,    \* TrafficCollection.basic_filter_statistics
    match_result        \* what find_best_matching_rnti returned

VARIABLES
    ng_conf,            \* rf_freq of the config in StartNgScope(config); 0: none yet
    sniffers,           \* the rf_freq of every sniffer process that is alive
    nof_kill,           \* calls of stop_ngscope so far
    nof_spawn_failed,   \* failed spawns of the sniffer since the last successful one
    last_update,        \* the cells of the last update handle_cell_update took
    hs                  \* since the last trigger: Start frames sent, valid frames
                        \* received since Start, SuccessfulAuth reports; triggers so far

VARIABLES
    cs_last_cell_info,  \* cell source: the cells of last_cell_info
    cs_broadcast,       \* every CellInfo broadcast on tx_cell_info so far
    cs_retrieved,       \* what retrieve_cell_info returned last
    eq_a,               \* info_a of equal_content
    eq_b,               \* info_b
    eq_result           \* what equal_content returned

ringVars == <<dci_buffer, nof_pushed, write_index, slice_call>>
capVars == <<cap_in, cap_out, tx_metric, metric_call>>
mainVars == <<main_pc, main_result, app_state, waiting_for, running_from>>
busVars == <<app_bus, rx_app>>
chanVars == <<chan, sent>>
ngVars == <<ngcontrol_state, ng_process_option, sniffer_alive>>
dciVars == <<dci_state, to_fetcher, from_fetcher>>
srcVars == <<last_cell_info, nof_cell_updates, cell_q>>
genVars == <<gen_state>>
lifeVars == <<sigint, mainVars, busVars, chanVars, pc, ngVars, dciVars, srcVars, genVars,
              logger_state>>
frameVars == <<fetcher_alive, last_frame>>
dciBusVars == <<nof_parsed, tx_dci, rx_dci, rx_dci_alive, dci_received, fetcher_blocked,
                nof_bus_full, frameVars>>
rttVars == <<rtt_buffer, rtt_last, rtt_extracted, rtt_decoded>>
matchVars == <<tc_cell_traffic, tc_pattern, basic_filter_statistics, match_result>>
ngxVars == <<ng_conf, sniffers, nof_kill, nof_spawn_failed, last_update, hs>>

VARIABLES
    arfcn_in,           \* arfcn_to_frequency: arfcn and cell_type
    arfcn_out           \* what it returned, in kHz

VARIABLES
    cgi_response,       \* from_cgi_response: the string fields of the response
    cgi_result          \* what it returned

VARIABLES
    downloader_state,   \* downloader: DownloaderState
    path_list_index,    \* index into paths
    stream_handle,      \* Option<TcpStream>
    timedata_is_empty,  \* current_download.timedata.is_empty()
    finish_timestamp_us,\* current_download.finish_timestamp_us
    dl_scenario,        \* app_args.scenario
    dl_opened           \* the path indices of the streams opened so far

VARIABLES
    ct_in,              \* translate_physcial_to_transport_simple: c_physical
    ct_out              \* what it returned

VARIABLES
    mh_scenario,        \* model handler: app_args.scenario
    mh_args,            \* FlattenedModelArgs
    mh_pc,              \* run: loop, done (left the loop), panic
    mh_dci_buffer,      \* run: dci_buffer
    mh_nof_dci,         \* DCIs taken from rx_dci so far
    mh_last_rnti,       \* run: last_rnti
    mh_last_cell_info,  \* run: last_cell_info (the nof_prb of its cells)
    mh_last_rnti_share_type,\* run: last_rnti_share_type
    mh_last_rtt_us,     \* run: last_rtt_us
    mh_metric_sending_interval_us,\* run: metric_sending_interval_us
    mh_metric_smoothing_size_ms,\* run: metric_smoothing_size_ms
    mh_last_metric_timestamp_us,\* run: last_metric_timestamp_us
    mh_now,             \* the clock, in us since run started
    mh_tx_metric,       \* every MetricA broadcast on tx_metric, in order
    mh_seen             \* the kinds of message received so far: rnti (with an RNTI), cell_info

VARIABLES
    rm_scenario,        \* rnti matcher: app_args.scenario
    rm_patterns,        \* traffic_pattern_list: per pattern its type and whether its features can be generated
    rm_sigint,          \* the SIGINT notifier
    rm_app_state,       \* main: app_state
    rm_main_pc,         \* main: loop, returned
    rm_ng_open,         \* whether NgControl still holds its sender
    rm_ng_chan,         \* the status channel NgControl -> main
    rm_nof_reports,     \* SuccessfulTriggerResponse sent by NgControl so far
    rm_app_bus,         \* everything main broadcast on tx_app_state after Running
    rm_rx,              \* how much of rm_app_bus the matcher has taken
    rm_pc,              \* matcher run: loop, done, panic
    rm_matcher_state,   \* run: matcher_state
    rm_traffic_pattern_index,\* run: traffic_pattern_index
    rm_gen,             \* everything sent on tx_gen_thread, in order
    rm_nof_rounds       \* calls of handle_start_matching so far

VARIABLES
    mr_pattern,         \* the traffic pattern of the configuration
    mr_now_ms,          \* chrono::Local::now().timestamp_millis()
    mr_pc,              \* where the matcher thread is: loop, panic, done
    mr_matcher_state,   \* matcher_state of run
    mr_tx_rnti,         \* the MessageRnti broadcast on tx_rnti
    mr_gen,             \* the LocalGeneratorState sent to the generator thread
    mr_latest_dcis,     \* latest_dcis: what collect_dcis returned in this iteration
    mr_nof_rounds,      \* how often handle_start_matching has run
    mr_result           \* what from_traffic_pattern or find_best_matching_rnti returned last

VARIABLES
    tg_state,           \* gen_state of run_traffic_generator
    tg_last_timemstamp_us,\* last_timemstamp_us
    tg_now_us,          \* chrono::Local::now().timestamp_micros()
    tg_pc,              \* where the generator thread is: loop, done
    tg_sleep,           \* the last thread::sleep of gen_handle_send_pattern with its delta and interval
    tg_nof_patterns     \* how many SendPattern messages were received

VARIABLES
    dt_state,           \* downloader_state, with the clock
    dt_now_us,          \* chrono::Local::now().timestamp_micros()
    dt_pc,              \* where the downloader thread is: loop, done
    dt_download,        \* current_download: DownloadStreamState
    dt_received_bytes,  \* the bytes stream.read has returned for current_download
    dt_read,            \* what stream.read returned last
    dt_added,           \* the time stamps of the DCIs given to add_ngscope_dci for current_download
    dt_params,          \* the DownloadFinishParameters of FinishDownload
    dt_nof_downloads,   \* how many streams were opened
    dt_latest_dcis      \* the DCIs unpack_all_dci_messages took from the bus in this iteration

VARIABLES
    lg_state,           \* logger_state of run
    lg_stop_time_init_option,\* stop_time_init_option
    lg_now_ms,          \* chrono::Local::now().timestamp_millis()
    lg_pc,              \* where the logger thread is: loop, done
    lg_app_bus,         \* what rx_app_state has not read yet
    lg_queue,           \* the LogMessages in the channel of the Logger, each with the time it was queued at
    lg_handled,         \* the LogMessages handle_log_message was called with
    lg_last_drain_ms,   \* the clock at the last call of handle_running
    lg_final            \* what finish sent on tx_logger_state

VARIABLES
    fs_dci_state,       \* run_dci_fetcher: dci_state (done: the loop was left)
    fs_to_fetcher,      \* rx_main_thread: what the controller sent and the fetcher has not read
    fs_socket,          \* the UDP frames that arrived at the socket and were not read
    fs_tx_dci,          \* the frames broadcast on tx_dci, in order
    fs_consumed,        \* the frames ngscope_validate_server_check took
    fs_nof_frames,      \* frames that arrived so far
    fs_nof_triggers,    \* SendInitial commands the controller sent so far
    fs_nof_auths        \* SuccessfulAuth reports the fetcher sent so far

csVars == <<cs_last_cell_info, cs_broadcast, cs_retrieved>>
eqVars == <<eq_a, eq_b, eq_result>>
arfcnVars == <<arfcn_in, arfcn_out>>
cgiVars == <<cgi_response, cgi_result>>
dlVars == <<downloader_state, path_list_index, stream_handle, timedata_is_empty, finish_timestamp_us, dl_scenario, dl_opened>>
ctVars == <<ct_in, ct_out>>
mhVars == <<mh_scenario, mh_args, mh_pc, mh_dci_buffer, mh_nof_dci, mh_last_rnti, mh_last_cell_info, mh_last_rnti_share_type, mh_last_rtt_us, mh_metric_sending_interval_us, mh_metric_smoothing_size_ms, mh_last_metric_timestamp_us, mh_now, mh_tx_metric, mh_seen>>
rmVars == <<rm_scenario, rm_patterns, rm_sigint, rm_app_state, rm_main_pc, rm_ng_open, rm_ng_chan, rm_nof_reports, rm_app_bus, rm_rx, rm_pc, rm_matcher_state, rm_traffic_pattern_index, rm_gen, rm_nof_rounds>>
mrVars == <<mr_pattern, mr_now_ms, mr_pc, mr_matcher_state, mr_tx_rnti, mr_gen, mr_latest_dcis, mr_nof_rounds, mr_result>>
tgVars == <<tg_state, tg_last_timemstamp_us, tg_now_us, tg_pc, tg_sleep, tg_nof_patterns>>
dtVars == <<dt_state, dt_now_us, dt_pc, dt_download, dt_received_bytes, dt_read, dt_added, dt_params, dt_nof_downloads, dt_latest_dcis>>
lgVars == <<lg_state, lg_stop_time_init_option, lg_now_ms, lg_pc, lg_app_bus, lg_queue, lg_handled, lg_last_drain_ms, lg_final>>
fsVars == <<fs_dci_state, fs_to_fetcher, fs_socket, fs_tx_dci, fs_consumed, fs_nof_frames, fs_nof_triggers, fs_nof_auths>>
auxVars == <<csVars, eqVars, arfcnVars, cgiVars, dlVars, ctVars, mhVars, rmVars, mrVars, tgVars, dtVars, lgVars, fsVars>>
fnVars == <<rttVars, matchVars, ngxVars, auxVars>>
coreVars == <<ringVars, capVars, lifeVars, dciBusVars, rttVars, matchVars, ngxVars>>
notCs == <<coreVars, eqVars, arfcnVars, cgiVars, dlVars, ctVars, mhVars, rmVars, mrVars, tgVars, dtVars, lgVars, fsVars>>
notEq == <<coreVars, csVars, arfcnVars, cgiVars, dlVars, ctVars, mhVars, rmVars, mrVars, tgVars, dtVars, lgVars, fsVars>>
notArfcn == <<coreVars, csVars, eqVars, cgiVars, dlVars, ctVars, mhVars, rmVars, mrVars, tgVars, dtVars, lgVars, fsVars>>
notCgi == <<coreVars, csVars, eqVars, arfcnVars, dlVars, ctVars, mhVars, rmVars, mrVars, tgVars, dtVars, lgVars, fsVars>>
notDl == <<coreVars, csVars, eqVars, arfcnVars, cgiVars, ctVars, mhVars, rmVars, mrVars, tgVars, dtVars, lgVars, fsVars>>
notCt == <<coreVars, csVars, eqVars, arfcnVars, cgiVars, dlVars, mhVars, rmVars, mrVars, tgVars, dtVars, lgVars, fsVars>>
notMh == <<coreVars, csVars, eqVars, arfcnVars, cgiVars, dlVars, ctVars, rmVars, mrVars, tgVars, dtVars, lgVars, fsVars>>
notRm == <<coreVars, csVars, eqVars, arfcnVars, cgiVars, dlVars, ctVars, mhVars, mrVars, tgVars, dtVars, lgVars, fsVars>>
notMr == <<coreVars, csVars, eqVars, arfcnVars, cgiVars, dlVars, ctVars, mhVars, rmVars, tgVars, dtVars, lgVars, fsVars>>
notTg == <<coreVars, csVars, eqVars, arfcnVars, cgiVars, dlVars, ctVars, mhVars, rmVars, mrVars, dtVars, lgVars, fsVars>>
notDt == <<coreVars, csVars, eqVars, arfcnVars, cgiVars, dlVars, ctVars, mhVars, rmVars, mrVars, tgVars, lgVars, fsVars>>
notLg == <<coreVars, csVars, eqVars, arfcnVars, cgiVars, dlVars, ctVars, mhVars, rmVars, mrVars, tgVars, dtVars, fsVars>>
notFs == <<coreVars, csVars, eqVars, arfcnVars, cgiVars, dlVars, ctVars, mhVars, rmVars, mrVars, tgVars, dtVars, lgVars>>
vars == <<ringVars, capVars, lifeVars, dciBusVars, fnVars>>

Min(a, b) == IF a < b THEN a ELSE b
Max(a, b) == IF a > b THEN a ELSE b

(***************************************************************************)
(* DciRingBuffer                                                           *)
(***************************************************************************)
ArrayIndex == 0 .. (MAX_DCI_ARRAY_SIZE - 1)

\* NgScopeCellDci::default(): a record no push ever stores
DefaultDci == 0

\* DciRingBuffer::new
DciRingBuffer_new ==
    [dci_array |-> [i \in ArrayIndex |-> DefaultDci], dci_next |-> 0]

\* slice::copy_within(src_start..src_end, 0): memmove of the range to the front
copy_within(arr, src_start, src_end) ==
    [i \in DOMAIN arr |->
        IF i < src_end - src_start THEN arr[src_start + i] ELSE arr[i]]

\* the cursor a push writes at, after the wrap test
push_cursor(buf) ==
    IF buf.dci_next >= MAX_DCI_ARRAY_SIZE THEN MAX_DCI_SLICE_SIZE
    ELSE buf.dci_next

\* a push that resets the cursor on a full buffer without copying the tail
push_no_copy_mut(buf, item) ==
    LET cur == push_cursor(buf)
    IN  [dci_array |-> [buf.dci_array EXCEPT ![cur] = item], dci_next |-> cur + 1]

\* DciRingBuffer::push
push(buf, item) ==
    LET wraps == buf.dci_next >= MAX_DCI_ARRAY_SIZE
        delta_index == buf.dci_next - MAX_DCI_SLICE_SIZE
        arr == IF wraps
               THEN copy_within(buf.dci_array, delta_index, buf.dci_next)
               ELSE buf.dci_array
        cur == push_cursor(buf)
    IN  [dci_array |-> [arr EXCEPT ![cur] = item], dci_next |-> cur + 1]

\* a slice taken from the front of the array instead of from the cursor back
slice_from_front_mut(buf, wanted_slice_size) ==
    IF wanted_slice_size = 0 \/ buf.dci_next = 0 THEN << >>
    ELSE LET slice_size == Min(wanted_slice_size, buf.dci_next)
         IN  [i \in 1 .. slice_size |-> buf.dci_array[i - 1]]

\* DciRingBuffer::slice, as a sequence (index 1 is the oldest entry returned)
slice(buf, wanted_slice_size) ==
    IF wanted_slice_size = 0 \/ buf.dci_next = 0 THEN << >>
    ELSE LET slice_size == Min(wanted_slice_size, buf.dci_next)
             delta_index == buf.dci_next - slice_size
         IN  [i \in 1 .. slice_size |-> buf.dci_array[delta_index + i - 1]]

NoSlice == [n |-> 0, k |-> 0, out |-> << >>]

RingIdle ==
    /\ dci_buffer = DciRingBuffer_new
    /\ nof_pushed = 0
    /\ write_index = -1
    /\ slice_call = NoSlice

NoInput == [target_rnti |-> 0, nof_prb |-> 0, dci_list |-> << >>, rnti_share_type |-> 0]
NoResult == [ok |-> FALSE, err |-> "not_called"]

CapIdle ==
    /\ cap_in = NoInput
    /\ cap_out = NoResult
    /\ tx_metric = << >>
    /\ metric_call = "none"

(***************************************************************************)
(* The state right after deploy_app: every thread spawned, nothing sent    *)
(***************************************************************************)
Workers == {"source", "model", "rntimatcher", "ngcontrol", "logger"}

\* wait_all_running: the initial content of waiting_for without the logger
waiting_for_init_mut == Workers \ {"logger"}

\* wait_all_running: let mut waiting_for = vec![...]
waiting_for_init == Workers

LifeIdle ==
    /\ sigint = FALSE
    /\ main_pc = "wait_all_running"
    /\ main_result = "none"
    /\ app_state = "Unknown"
    /\ waiting_for = waiting_for_init
    /\ running_from = {}
    /\ app_bus = << >>
    /\ rx_app = [w \in Workers |-> 0]
    /\ chan = [w \in Workers |-> << >>]
    /\ sent = [w \in Workers |-> << >>]
    /\ pc = [w \in Workers |-> "start"]
    /\ ngcontrol_state = "CheckingCellInfo"
    /\ ng_process_option = "None"
    /\ sniffer_alive = FALSE
    /\ dci_state = "none"
    /\ to_fetcher = << >>
    /\ from_fetcher = << >>
    /\ last_cell_info = 0
    /\ nof_cell_updates = 0
    /\ cell_q = << >>
    /\ gen_state = "none"
    /\ logger_state = "Running"

\* deploy_app: the readers of the DCI bus (rx_dci: tx_dci.add_rx())
Subscribers == {"model", "rntimatcher"}

\* socket.recv_from returned an error: no frame is waiting
NoFrame == [preamble |-> "none", len |-> 0]

DciBusIdle ==
    /\ fetcher_alive = TRUE
    /\ last_frame = NoFrame
    /\ nof_parsed = 0
    /\ tx_dci = << >>
    /\ rx_dci = [r \in Subscribers |-> 0]
    /\ rx_dci_alive = [r \in Subscribers |-> TRUE]
    /\ dci_received = [r \in Subscribers |-> << >>]
    /\ fetcher_blocked = 0
    /\ nof_bus_full = 0

\* Option and Result, and the outcomes of a call
None == [kind |-> "None", value |-> 0]
Some(v) == [kind |-> "Some", value |-> v]
Ok(v) == [kind |-> "Ok", value |-> v]
Err == [kind |-> "Err", value |-> 0]
Panic == [kind |-> "panic", value |-> 0]
NotCalled == [kind |-> "not_called", value |-> 0]

RttIdle ==
    /\ rtt_buffer = << >>
    /\ rtt_last = None
    /\ rtt_extracted = NotCalled
    /\ rtt_decoded = NotCalled

MatchIdle ==
    /\ tc_cell_traffic = << >>
    /\ tc_pattern = [std_vec |-> << >>, std_feature_vec |-> << >>, total_ul_bytes |-> 0,
                     nof_packets |-> 0]
    /\ basic_filter_statistics = None
    /\ match_result = NotCalled

NgxIdle ==
    /\ ng_conf = 0
    /\ sniffers = << >>
    /\ nof_kill = 0
    /\ nof_spawn_failed = 0
    /\ last_update = << >>
    /\ hs = [triggers |-> 0, starts |-> 0, valid |-> 0, auths |-> 0]

CsIdle ==
    /\ cs_last_cell_info = << >>
    /\ cs_broadcast = << >>
    /\ cs_retrieved = NotCalled

EqIdle ==
    /\ eq_a = << >>
    /\ eq_b = << >>
    /\ eq_result = NotCalled

ArfcnIdle ==
    /\ arfcn_in = NotCalled
    /\ arfcn_out = NotCalled

CgiIdle ==
    /\ cgi_response = NotCalled
    /\ cgi_result = NotCalled

DlIdle ==
    /\ downloader_state = NotCalled
    /\ path_list_index = 0
    /\ stream_handle = "None"
    /\ timedata_is_empty = TRUE
    /\ finish_timestamp_us = "None"
    /\ dl_scenario = "none"
    /\ dl_opened = << >>

CtIdle ==
    /\ ct_in = NotCalled
    /\ ct_out = NotCalled

MhIdle ==
    /\ mh_scenario = "TrackCellDciOnly"
    /\ mh_args = "none"
    /\ mh_pc = "done"
    /\ mh_dci_buffer = DciRingBuffer_new
    /\ mh_nof_dci = 0
    /\ mh_last_rnti = None
    /\ mh_last_cell_info = None
    /\ mh_last_rnti_share_type = 0
    /\ mh_last_rtt_us = None
    /\ mh_metric_sending_interval_us = 0
    /\ mh_metric_smoothing_size_ms = 0
    /\ mh_last_metric_timestamp_us = 0
    /\ mh_now = 0
    /\ mh_tx_metric = << >>
    /\ mh_seen = {}

RmIdle ==
    /\ rm_scenario = "TrackCellDciOnly"
    /\ rm_patterns = << >>
    /\ rm_sigint = FALSE
    /\ rm_app_state = "Stopped"
    /\ rm_main_pc = "returned"
    /\ rm_ng_open = FALSE
    /\ rm_ng_chan = << >>
    /\ rm_nof_reports = 0
    /\ rm_app_bus = << >>
    /\ rm_rx = 0
    /\ rm_pc = "done"
    /\ rm_matcher_state = "none"
    /\ rm_traffic_pattern_index = 0
    /\ rm_gen = << >>
    /\ rm_nof_rounds = 0

MrIdle ==
    /\ mr_pattern = "none"
    /\ mr_now_ms = 0
    /\ mr_pc = "done"
    /\ mr_matcher_state = "none"
    /\ mr_tx_rnti = << >>
    /\ mr_gen = << >>
    /\ mr_latest_dcis = << >>
    /\ mr_nof_rounds = 0
    /\ mr_result = None

TgIdle ==
    /\ tg_state = "none"
    /\ tg_last_timemstamp_us = None
    /\ tg_now_us = 0
    /\ tg_pc = "done"
    /\ tg_sleep = None
    /\ tg_nof_patterns = 0

DtIdle ==
    /\ dt_state = "none"
    /\ dt_now_us = 0
    /\ dt_pc = "done"
    /\ dt_download = "none"
    /\ dt_received_bytes = 0
    /\ dt_read = None
    /\ dt_added = << >>
    /\ dt_params = None
    /\ dt_nof_downloads = 0
    /\ dt_latest_dcis = << >>

LgIdle ==
    /\ lg_state = "Stopped"
    /\ lg_stop_time_init_option = None
    /\ lg_now_ms = 0
    /\ lg_pc = "done"
    /\ lg_app_bus = << >>
    /\ lg_queue = << >>
    /\ lg_handled = << >>
    /\ lg_last_drain_ms = 0
    /\ lg_final = << >>

FsIdle ==
    /\ fs_dci_state = "done"
    /\ fs_to_fetcher = << >>
    /\ fs_socket = << >>
    /\ fs_tx_dci = << >>
    /\ fs_consumed = << >>
    /\ fs_nof_frames = 0
    /\ fs_nof_triggers = 0
    /\ fs_nof_auths = 0

AuxIdle == CsIdle /\ EqIdle /\ ArfcnIdle /\ CgiIdle /\ DlIdle /\ CtIdle /\ MhIdle /\ RmIdle /\ MrIdle /\ TgIdle /\ DtIdle /\ LgIdle /\ FsIdle

FnIdle == RttIdle /\ MatchIdle /\ NgxIdle /\ AuxIdle

CoreIdle ==
    /\ RingIdle /\ CapIdle /\ LifeIdle /\ DciBusIdle
    /\ RttIdle /\ MatchIdle /\ NgxIdle

\* everything but one auxiliary group is idle
CsOthersIdle == CoreIdle /\ EqIdle /\ ArfcnIdle /\ CgiIdle /\ DlIdle /\ CtIdle /\ MhIdle /\ RmIdle /\ MrIdle /\ TgIdle /\ DtIdle /\ LgIdle /\ FsIdle
EqOthersIdle == CoreIdle /\ CsIdle /\ ArfcnIdle /\ CgiIdle /\ DlIdle /\ CtIdle /\ MhIdle /\ RmIdle /\ MrIdle /\ TgIdle /\ DtIdle /\ LgIdle /\ FsIdle
ArfcnOthersIdle == CoreIdle /\ CsIdle /\ EqIdle /\ CgiIdle /\ DlIdle /\ CtIdle /\ MhIdle /\ RmIdle /\ MrIdle /\ TgIdle /\ DtIdle /\ LgIdle /\ FsIdle
CgiOthersIdle == CoreIdle /\ CsIdle /\ EqIdle /\ ArfcnIdle /\ DlIdle /\ CtIdle /\ MhIdle /\ RmIdle /\ MrIdle /\ TgIdle /\ DtIdle /\ LgIdle /\ FsIdle
DlOthersIdle == CoreIdle /\ CsIdle /\ EqIdle /\ ArfcnIdle /\ CgiIdle /\ CtIdle /\ MhIdle /\ RmIdle /\ MrIdle /\ TgIdle /\ DtIdle /\ LgIdle /\ FsIdle
CtOthersIdle == CoreIdle /\ CsIdle /\ EqIdle /\ ArfcnIdle /\ CgiIdle /\ DlIdle /\ MhIdle /\ RmIdle /\ MrIdle /\ TgIdle /\ DtIdle /\ LgIdle /\ FsIdle
MhOthersIdle == CoreIdle /\ CsIdle /\ EqIdle /\ ArfcnIdle /\ CgiIdle /\ DlIdle /\ CtIdle /\ RmIdle /\ MrIdle /\ TgIdle /\ DtIdle /\ LgIdle /\ FsIdle
RmOthersIdle == CoreIdle /\ CsIdle /\ EqIdle /\ ArfcnIdle /\ CgiIdle /\ DlIdle /\ CtIdle /\ MhIdle /\ MrIdle /\ TgIdle /\ DtIdle /\ LgIdle /\ FsIdle
MrOthersIdle == CoreIdle /\ CsIdle /\ EqIdle /\ ArfcnIdle /\ CgiIdle /\ DlIdle /\ CtIdle /\ MhIdle /\ RmIdle /\ TgIdle /\ DtIdle /\ LgIdle /\ FsIdle
TgOthersIdle == CoreIdle /\ CsIdle /\ EqIdle /\ ArfcnIdle /\ CgiIdle /\ DlIdle /\ CtIdle /\ MhIdle /\ RmIdle /\ MrIdle /\ DtIdle /\ LgIdle /\ FsIdle
DtOthersIdle == CoreIdle /\ CsIdle /\ EqIdle /\ ArfcnIdle /\ CgiIdle /\ DlIdle /\ CtIdle /\ MhIdle /\ RmIdle /\ MrIdle /\ TgIdle /\ LgIdle /\ FsIdle
LgOthersIdle == CoreIdle /\ CsIdle /\ EqIdle /\ ArfcnIdle /\ CgiIdle /\ DlIdle /\ CtIdle /\ MhIdle /\ RmIdle /\ MrIdle /\ TgIdle /\ DtIdle /\ FsIdle
FsOthersIdle == CoreIdle /\ CsIdle /\ EqIdle /\ ArfcnIdle /\ CgiIdle /\ DlIdle /\ CtIdle /\ MhIdle /\ RmIdle /\ MrIdle /\ TgIdle /\ DtIdle /\ LgIdle

InitRing == RingIdle /\ CapIdle /\ LifeIdle /\ DciBusIdle /\ FnIdle

\* dci_buffer.push(dci): the k-th DCI pushed carries the identity k
RingPush ==
    /\ nof_pushed < MaxPush
    /\ dci_buffer' = push(dci_buffer, nof_pushed + 1)
    /\ write_index' = push_cursor(dci_buffer)
    /\ nof_pushed' = nof_pushed + 1
    /\ UNCHANGED <<slice_call, capVars, lifeVars, dciBusVars, fnVars>>

\* dci_buffer.slice(n)
RingSlice ==
    /\ \E n \in 0 .. (MAX_DCI_ARRAY_SIZE + 1) :
          slice_call' = [n |-> n, k |-> nof_pushed, out |-> slice(dci_buffer, n)]
    /\ UNCHANGED <<dci_buffer, nof_pushed, write_index, capVars, lifeVars, dciBusVars, fnVars>>

NextRing == RingPush \/ RingSlice

SpecRing == InitRing /\ [][NextRing]_vars

\* the last m of the first k pushed items, in insertion order
LastPushed(m, k) == [i \in 1 .. m |-> k - m + i]

(***************************************************************************)
(* C8: before the buffer wraps (at most MAX_DCI_ARRAY_SIZE pushes so far), *)
(* slice(n) returns exactly the last min(n, k) of the k pushed items in    *)
(* insertion order, the empty slice for n = 0 or k = 0.                    *)
(***************************************************************************)
C8_SliceBeforeWrap ==
    slice_call.k <= MAX_DCI_ARRAY_SIZE =>
        slice_call.out = LastPushed(Min(slice_call.n, slice_call.k), slice_call.k)

C8_Witness ==
    /\ slice_call.k = MAX_DCI_ARRAY_SIZE
    /\ slice_call.n = MAX_DCI_ARRAY_SIZE + 1
    /\ Len(slice_call.out) = MAX_DCI_ARRAY_SIZE

(***************************************************************************)
(* C9: after the buffer wraps.  A push on a full buffer copies the last    *)
(* MAX_DCI_SLICE_SIZE entries to the front and writes at cursor            *)
(* MAX_DCI_SLICE_SIZE; after any push the cursor is within                 *)
(* 1..MAX_DCI_ARRAY_SIZE and the write was inside the array; slice(n) with *)
(* n <= MAX_DCI_SLICE_SIZE returns the n most recently pushed items in     *)
(* insertion order.                                                        *)
(***************************************************************************)
C9_WrapStep ==
    (nof_pushed' = nof_pushed + 1 /\ dci_buffer.dci_next >= MAX_DCI_ARRAY_SIZE) =>
        /\ \A i \in 0 .. (MAX_DCI_SLICE_SIZE - 1) :
              dci_buffer'.dci_array[i] =
                  dci_buffer.dci_array[dci_buffer.dci_next - MAX_DCI_SLICE_SIZE + i]
        /\ write_index' = MAX_DCI_SLICE_SIZE
        /\ dci_buffer'.dci_next = MAX_DCI_SLICE_SIZE + 1

C9_State ==
    /\ nof_pushed >= 1 =>
          /\ dci_buffer.dci_next \in 1 .. MAX_DCI_ARRAY_SIZE
          /\ write_index \in ArrayIndex
          /\ dci_buffer.dci_array[write_index] = nof_pushed
    /\ (slice_call.k > MAX_DCI_ARRAY_SIZE /\ slice_call.n <= MAX_DCI_SLICE_SIZE) =>
          slice_call.out = LastPushed(slice_call.n, slice_call.k)

C9_AfterWrap == [](C9_State) /\ [][C9_WrapStep]_vars

C9_Witness ==
    /\ nof_pushed > 2 * MAX_DCI_ARRAY_SIZE
    /\ slice_call.k > 2 * MAX_DCI_ARRAY_SIZE
    /\ slice_call.n = MAX_DCI_SLICE_SIZE
    /\ Len(slice_call.out) = MAX_DCI_SLICE_SIZE

(***************************************************************************)
(* PBE-CC capacity (model_handler.rs 403-619)                              *)
(***************************************************************************)
STANDARD_NOF_PRB_SLOT_TO_SUBFRAME == 2
STANDARD_BIT_PER_PRB == 500
RNTI_SHARE_TYPE_ALL == 0
RNTI_SHARE_TYPE_DL_OCCURENCES == 1
RNTI_SHARE_TYPE_GREEDY == 2

\* NgScopeRntiDci
RntiDci(rnti, dl_tbs_bit, dl_prb, dl_no_tbs_prb) ==
    [rnti |-> rnti, dl_tbs_bit |-> dl_tbs_bit, dl_prb |-> dl_prb,
     dl_no_tbs_prb |-> dl_no_tbs_prb]

DefaultRntiDci == RntiDci(0, 0, 0, 0)

\* NgScopeCellDci, the fields the model handler reads (time_stamp 0 as in
\* NgScopeCellDci::default())
CellDci(nof_rnti, total_dl_prb, total_dl_no_tbs_prb, total_dl_tbs_bit, rnti_list) ==
    [time_stamp |-> 0, nof_rnti |-> nof_rnti, total_dl_prb |-> total_dl_prb,
     total_dl_no_tbs_prb |-> total_dl_no_tbs_prb,
     total_dl_tbs_bit |-> total_dl_tbs_bit, rnti_list |-> rnti_list]

RECURSIVE SeqSum(_)
SeqSum(s) == IF s = << >> THEN 0 ELSE Head(s) + SeqSum(Tail(s))

\* rnti_list.iter().take(nof_rnti).filter(dl_prb > 0)
TakeDlEntries(dci) ==
    SelectSeq(SubSeq(dci.rnti_list, 1, Min(dci.nof_rnti, Len(dci.rnti_list))),
              LAMBDA e : e.dl_prb > 0)

\* dci_list.iter().flat_map(...)
RECURSIVE FlatMapDl(_)
FlatMapDl(dci_list) ==
    IF dci_list = << >> THEN << >>
    ELSE TakeDlEntries(Head(dci_list)) \o FlatMapDl(Tail(dci_list))

SeqRange(s) == {s[i] : i \in 1 .. Len(s)}

CountIn(s, x) == Cardinality({i \in 1 .. Len(s) : s[i] = x})

\* match *rnti_share_type { ... } (lines 506-545)
nof_rnti_shared_of(dci_list, rnti_share_type, nof_rnti) ==
    IF rnti_share_type = RNTI_SHARE_TYPE_DL_OCCURENCES
    THEN LET nof_occurenes_threshould == Len(dci_list) \div 10
             rntis == [i \in 1 .. Len(FlatMapDl(dci_list)) |-> FlatMapDl(dci_list)[i].rnti]
             nof_filtered ==
                 Cardinality({r \in SeqRange(rntis) :
                                 CountIn(rntis, r) >= nof_occurenes_threshould})
         IN  IF nof_filtered = 0 THEN 1 ELSE nof_filtered
    ELSE IF rnti_share_type = RNTI_SHARE_TYPE_GREEDY THEN 1
    ELSE IF nof_rnti <= 1 THEN 1 ELSE nof_rnti

\* the suggested PRBs with the idle share rounded down
p_alloc_rnti_suggested_floor_mut(p_alloc_rnti, p_idle, nof_rnti_shared) ==
    p_alloc_rnti + (p_idle \div nof_rnti_shared)

\* lines 550-551
p_alloc_rnti_suggested_of(p_alloc_rnti, p_idle, nof_rnti_shared) ==
    p_alloc_rnti + ((p_idle + nof_rnti_shared - 1) \div nof_rnti_shared)

\* lines 552-553: f64 product and quotient, truncated to u64 (exact at these sizes)
c_p_of(r_w, p_alloc_rnti, p_alloc_rnti_suggested, nof_dci) ==
    (r_w * (p_alloc_rnti + p_alloc_rnti_suggested)) \div nof_dci

RECURSIVE Log2(_)
Log2(n) == IF n <= 1 THEN 0 ELSE 1 + Log2(n \div 2)

\* PHYSICAL_TO_TRANSPORT_FACTOR = 1.0 - 0.068 is the f64 0.9319999999999999,
\* below 0.932 by d = 6.04e-17.  Where c * 0.932 is an integer n, the f64
\* product is n if n / 2^Log2(n) < 2^-53 * 0.932 / d = 1.7132.. and the
\* f64 before n otherwise; the limit is that bound times 2^30, rounded down
F64_ROUND_LIMIT == 1839572389

\* c_physical as f64 * PHYSICAL_TO_TRANSPORT_FACTOR, truncated by `as u64`
f64_mul_factor_as_u64(c) ==
    LET n == (c * 932) \div 1000
    IN  IF (c * 932) % 1000 # 0 \/ c = 0 THEN n
        ELSE IF n <= F64_ROUND_LIMIT \div 2 ^ (30 - Log2(n)) THEN n
        ELSE n - 1

\* a conversion that rounds to the nearest integer
translate_physcial_to_transport_round_mut(c_physical) ==
    (c_physical * 932 + 500) \div 1000

\* translate_physcial_to_transport_simple
translate_physcial_to_transport_simple(c_physical) ==
    f64_mul_factor_as_u64(c_physical)

\* a rate that falls back to the constant whenever the target has no PRBs
r_w_of_mut(p_alloc_rnti, p_alloc, tbs_alloc_bit, tbs_alloc_rnti_bit) ==
    IF p_alloc_rnti = 0
    THEN [r_w |-> STANDARD_BIT_PER_PRB, r_w_coarse_flag |-> 1]
    ELSE [r_w |-> tbs_alloc_rnti_bit \div p_alloc_rnti, r_w_coarse_flag |-> 0]

\* lines 478-495: r_w and r_w_coarse_flag
r_w_of(p_alloc_rnti, p_alloc, tbs_alloc_bit, tbs_alloc_rnti_bit) ==
    IF p_alloc_rnti = 0
    THEN IF p_alloc > 0
         THEN [r_w |-> tbs_alloc_bit \div p_alloc, r_w_coarse_flag |-> 1]
         ELSE [r_w |-> STANDARD_BIT_PER_PRB, r_w_coarse_flag |-> 1]
    ELSE [r_w |-> tbs_alloc_rnti_bit \div p_alloc_rnti, r_w_coarse_flag |-> 0]

ErrZeroDci == [ok |-> FALSE, err |-> "zero_dci"]
ErrPIdle == [ok |-> FALSE, err |-> "p_idle"]

\* calculate_pbe_cc_capacity
calculate_pbe_cc_capacity(target_rnti, nof_prb, dci_list, rnti_share_type) ==
    LET nof_dci == Len(dci_list)
        p_cell == STANDARD_NOF_PRB_SLOT_TO_SUBFRAME * nof_prb * nof_dci
        dl == FlatMapDl(dci_list)
        nof_rnti == Cardinality({dl[i].rnti : i \in 1 .. Len(dl)})
        p_alloc == SeqSum([i \in 1 .. nof_dci |-> dci_list[i].total_dl_prb])
        p_alloc_no_tbs == SeqSum([i \in 1 .. nof_dci |-> dci_list[i].total_dl_no_tbs_prb])
        tbs_alloc_bit == SeqSum([i \in 1 .. nof_dci |-> dci_list[i].total_dl_tbs_bit])
        target_rnti_dci_list == SelectSeq(dl, LAMBDA e : e.rnti = target_rnti)
        nt == Len(target_rnti_dci_list)
        tbs_alloc_rnti_bit == SeqSum([i \in 1 .. nt |-> target_rnti_dci_list[i].dl_tbs_bit])
        p_alloc_rnti == SeqSum([i \in 1 .. nt |-> target_rnti_dci_list[i].dl_prb])
        p_alloc_no_tbs_rnti ==
            SeqSum([i \in 1 .. nt |-> target_rnti_dci_list[i].dl_no_tbs_prb])
        p_alloc_total == p_alloc + p_alloc_no_tbs
        rate == r_w_of(p_alloc_rnti, p_alloc, tbs_alloc_bit, tbs_alloc_rnti_bit)
        r_w_coarse_flag == rate.r_w_coarse_flag
        r_w == rate.r_w
        p_idle == p_cell - p_alloc_total
        used_rnti_share_type ==
            IF rnti_share_type \in {RNTI_SHARE_TYPE_DL_OCCURENCES, RNTI_SHARE_TYPE_GREEDY}
            THEN rnti_share_type ELSE RNTI_SHARE_TYPE_ALL
        nof_rnti_shared == nof_rnti_shared_of(dci_list, rnti_share_type, nof_rnti)
        p_alloc_rnti_suggested ==
            p_alloc_rnti_suggested_of(p_alloc_rnti, p_idle, nof_rnti_shared)
        c_p == c_p_of(r_w, p_alloc_rnti, p_alloc_rnti_suggested, nof_dci)
    IN  IF nof_dci = 0 THEN ErrZeroDci
        ELSE IF p_alloc_total > p_cell THEN ErrPIdle
        ELSE [ok |-> TRUE,
              physical_fair_share_capacity_bit_per_ms |-> c_p,
              transport_fair_share_capacity_bit_per_ms |->
                  translate_physcial_to_transport_simple(c_p),
              physical_rate_bit_per_prb |-> r_w,
              physical_rate_coarse_flag |-> r_w_coarse_flag,
              no_tbs_prb_num |-> IF p_alloc_no_tbs > 0 THEN p_alloc_no_tbs ELSE 0,
              no_tbs_prb_den |-> IF p_alloc_no_tbs > 0 THEN p_alloc_total ELSE 1,
              nof_dci |-> nof_dci,
              p_cell |-> p_cell,
              nof_rnti_shared |-> nof_rnti_shared,
              nof_rnti_in_dci |-> nof_rnti,
              rnti_share_type |-> used_rnti_share_type,
              p_alloc |-> p_alloc,
              p_alloc_no_tbs |-> p_alloc_no_tbs,
              tbs_alloc_bit |-> tbs_alloc_bit,
              target_rnti |-> target_rnti,
              tbs_alloc_rnti_bit |-> tbs_alloc_rnti_bit,
              p_alloc_rnti |-> p_alloc_rnti,
              p_alloc_rnti_suggested |-> p_alloc_rnti_suggested,
              p_alloc_no_tbs_rnti |-> p_alloc_no_tbs_rnti]

(***************************************************************************)
(* SpecCap: calculate_pbe_cc_capacity applied to bounded slices            *)
(***************************************************************************)
MaxPerKind == 2

\* the records of test_capacity (dummy_dci_slice, lines 652-684): each
\* dummy_rnti_dci(n) only ever fills entry 0, with rnti 122 + n and dl_prb 1 + n
TestDci(n, total_dl_prb) ==
    CellDci(n, total_dl_prb, 0, 0,
            [j \in 1 .. n |-> IF j = 1 THEN RntiDci(122 + n, 1024, 1 + n, 0)
                              ELSE DefaultRntiDci])

dummy_dci_slice == <<TestDci(2, 5), TestDci(1, 2), TestDci(4, 14)>>

\* a DCI carrying the target and one other RNTI, with PRBs without TBS
DciTwoUe == CellDci(2, 7, 2, 3000, <<RntiDci(123, 2000, 4, 1), RntiDci(200, 1000, 3, 1)>>)
\* a DCI with one valid entry and a stale entry behind nof_rnti
DciStale == CellDci(1, 3, 0, 900, <<RntiDci(200, 900, 3, 0), RntiDci(123, 999, 9, 0)>>)
\* a subframe without any grant
DciEmpty == CellDci(0, 0, 0, 0, << >>)
\* a DCI that allocates more PRBs than a 100-PRB cell offers in a subframe
DciOver == CellDci(1, 250, 0, 5000, <<RntiDci(300, 5000, 250, 0)>>)

Rep(d, n) == [i \in 1 .. n |-> d]

PadCounts == {0, 7, 13}

CapSlices ==
    {(IF a = 1 THEN dummy_dci_slice ELSE << >>) \o Rep(DciTwoUe, b) \o Rep(DciStale, c)
        \o Rep(DciEmpty, e) \o Rep(DciOver, f) :
        a \in 0 .. 1, b \in 0 .. MaxPerKind, c \in 0 .. MaxPerKind,
        e \in PadCounts, f \in 0 .. 1}

CapInputs ==
    [target_rnti : {123, 200, 999}, nof_prb : {3, 100}, dci_list : CapSlices,
     rnti_share_type : 0 .. 3]

InitCap ==
    /\ RingIdle
    /\ LifeIdle
    /\ DciBusIdle
    /\ FnIdle
    /\ cap_in \in CapInputs
    /\ cap_out = NoResult
    /\ tx_metric = << >>
    /\ metric_call = "none"

\* calculate_pbe_cc_capacity(target_rnti, cell_info, dci_list, rnti_share_type)
CapCalculate ==
    /\ cap_out = NoResult
    /\ cap_out' = calculate_pbe_cc_capacity(cap_in.target_rnti, cap_in.nof_prb,
                                            cap_in.dci_list, cap_in.rnti_share_type)
    /\ UNCHANGED <<cap_in, tx_metric, metric_call, ringVars, lifeVars, dciBusVars, fnVars>>

\* a capacity calculation that never fails
calculate_capacity_ok_mut(target_rnti, nof_prb, dci_list, rnti_share_type) ==
    [ok |-> TRUE, transport_fair_share_capacity_bit_per_ms |-> 0,
     physical_rate_coarse_flag |-> 0, physical_rate_bit_per_prb |-> 0,
     no_tbs_prb_num |-> 0, no_tbs_prb_den |-> 1]

\* calculate_capacity: calculate_pbe_cc_capacity(..)?, then logging
calculate_capacity(target_rnti, nof_prb, dci_list, rnti_share_type) ==
    calculate_pbe_cc_capacity(target_rnti, nof_prb, dci_list, rnti_share_type)

\* the MetricA that handle_calculate_metric builds from an Ok result
MetricA(result, buffer_slice, now_us) ==
    [timestamp_us |-> now_us,
     fair_share_send_rate |-> result.transport_fair_share_capacity_bit_per_ms,
     latest_dci_timestamp_us |-> buffer_slice[1].time_stamp,
     oldest_dci_timestamp_us |-> buffer_slice[Len(buffer_slice)].time_stamp,
     nof_dci |-> Len(buffer_slice),
     no_tbs_prb_num |-> result.no_tbs_prb_num,
     no_tbs_prb_den |-> result.no_tbs_prb_den,
     flag_phy_rate_all_rnti |-> result.physical_rate_coarse_flag,
     phy_rate |-> result.physical_rate_bit_per_prb]

\* handle_calculate_metric on the slice cap_in.dci_list
HandleCalculateMetric ==
    /\ cap_in # NoInput
    /\ metric_call = "none"
    /\ LET buffer_slice == cap_in.dci_list
           result == calculate_capacity(cap_in.target_rnti, cap_in.nof_prb, buffer_slice,
                                        cap_in.rnti_share_type)
       IN  IF buffer_slice # << >>
           THEN /\ tx_metric' = IF result.ok
                                THEN Append(tx_metric, MetricA(result, buffer_slice, 0))
                                ELSE tx_metric
                /\ metric_call' = "done"
           ELSE /\ metric_call' = "skipped"
                /\ UNCHANGED tx_metric
    /\ UNCHANGED <<cap_in, cap_out, ringVars, lifeVars, dciBusVars, fnVars>>

NextCap == CapCalculate \/ HandleCalculateMetric

SpecCap == InitCap /\ [][NextCap]_vars

(***************************************************************************)
(* C10, stated over the slice itself                                       *)
(***************************************************************************)
RECURSIVE SumOver(_, _)
SumOver(S, f) ==
    IF S = {} THEN 0
    ELSE LET x == CHOOSE y \in S : TRUE IN f[x] + SumOver(S \ {x}, f)

\* positions <<i, j>> of the valid entries with dl_prb > 0
DlPositions(D) ==
    {p \in UNION {{<<i, j>> : j \in 1 .. Min(D[i].nof_rnti, Len(D[i].rnti_list))} :
                     i \in 1 .. Len(D)} :
        D[p[1]].rnti_list[p[2]].dl_prb > 0}

EntryAt(D, p) == D[p[1]].rnti_list[p[2]]

DlRntis(D) == {EntryAt(D, p).rnti : p \in DlPositions(D)}

\* the DCIs of the slice in which rnti r holds PRBs
DcisWith(D, r) == {i \in 1 .. Len(D) : \E p \in DlPositions(D) : p[1] = i /\ EntryAt(D, p).rnti = r}

Ceil(a, b) == IF a % b = 0 THEN a \div b ELSE (a \div b) + 1

Claim_p_idle(D, nof_prb) ==
    2 * nof_prb * Len(D)
      - SumOver(1 .. Len(D), [i \in 1 .. Len(D) |-> D[i].total_dl_prb + D[i].total_dl_no_tbs_prb])

Claim_p_alloc_rnti(D, target) ==
    LET P == {p \in DlPositions(D) : EntryAt(D, p).rnti = target}
    IN  SumOver(P, [p \in P |-> EntryAt(D, p).dl_prb])

\* "in at least |D|/10 DCIs": 10 * count >= |D|
Claim_shared_exact(D, type) ==
    IF type = RNTI_SHARE_TYPE_GREEDY THEN 1
    ELSE IF type = RNTI_SHARE_TYPE_DL_OCCURENCES
    THEN Max(1, Cardinality({r \in DlRntis(D) : 10 * Cardinality(DcisWith(D, r)) >= Len(D)}))
    ELSE Max(1, Cardinality(DlRntis(D)))

\* "in at least floor(|D|/10) DCIs"
Claim_shared_floor(D, type) ==
    IF type = RNTI_SHARE_TYPE_GREEDY THEN 1
    ELSE IF type = RNTI_SHARE_TYPE_DL_OCCURENCES
    THEN Max(1, Cardinality({r \in DlRntis(D) :
                                Cardinality(DcisWith(D, r)) >= Len(D) \div 10}))
    ELSE Max(1, Cardinality(DlRntis(D)))

C10_Holds(shared) ==
    LET D == cap_in.dci_list
        p_alloc_rnti == Claim_p_alloc_rnti(D, cap_in.target_rnti)
        suggested == p_alloc_rnti + Ceil(Claim_p_idle(D, cap_in.nof_prb), shared)
    IN  /\ cap_out.nof_rnti_shared = shared
        /\ cap_out.p_alloc_rnti_suggested = suggested
        /\ cap_out.physical_fair_share_capacity_bit_per_ms =
              (cap_out.physical_rate_bit_per_prb * (p_alloc_rnti + suggested)) \div Len(D)

GoldenInput ==
    [target_rnti |-> 123, nof_prb |-> 100, dci_list |-> dummy_dci_slice,
     rnti_share_type |-> RNTI_SHARE_TYPE_ALL]

C10_Golden ==
    (cap_in = GoldenInput /\ cap_out # NoResult) =>
        /\ cap_out.ok
        /\ cap_out.physical_fair_share_capacity_bit_per_ms = 33621

C11_SliceRejected ==
    \/ Len(cap_in.dci_list) = 0
    \/ Claim_p_idle(cap_in.dci_list, cap_in.nof_prb) < 0

C11_NoMetricOnError ==
    /\ (cap_out # NoResult /\ C11_SliceRejected) => ~cap_out.ok
    /\ (metric_call # "none" /\ C11_SliceRejected) => tx_metric = << >>
    /\ (metric_call # "none" /\ Len(cap_in.dci_list) = 0) => metric_call = "skipped"

C11_Witness ==
    /\ metric_call = "done"
    /\ Claim_p_idle(cap_in.dci_list, cap_in.nof_prb) < 0
    /\ cap_out = ErrPIdle
    /\ tx_metric = << >>

(***************************************************************************)
(* Application lifecycle: supervisor (main.rs), the five workers and the   *)
(* sub-threads of NgControl (DCI fetcher) and RntiMatcher (generator)      *)
(***************************************************************************)
CHANNEL_SYNC_SIZE == 10
BUS_SIZE_APP_STATE == 50
MaxCellUpdates == 2


\* all_rx_states and tx_app_state live until main returns; they are dropped
\* (receivers first, then the bus) before the process exits
ReceiversAlive == main_pc \notin {"returned", "exited"}
BusAlive == main_pc \notin {"returned", "exited"}
ThreadsAlive == main_pc # "exited"

\* WorkerState::to_general_state
to_general_state(msg) ==
    IF msg = "Running" THEN "Running"
    ELSE IF msg = "Stopped" THEN "Stopped"
    ELSE "Unknown"

\* BusReader<MainState>::try_recv of worker w
app_try_recv(w) ==
    IF rx_app[w] < Len(app_bus) THEN app_bus[rx_app[w] + 1]
    ELSE IF BusAlive THEN "Empty" ELSE "Disconnected"

rx_app_after(w) ==
    IF rx_app[w] < Len(app_bus) THEN [rx_app EXCEPT ![w] = @ + 1] ELSE rx_app

\* check_not_stopped applied to the outcome of try_recv
check_not_stopped(m) ==
    IF m = "Disconnected" THEN "Err"
    ELSE IF m = "Empty" THEN "Ok"
    ELSE IF to_general_state(m) = "Stopped" THEN "Err" ELSE "Ok"

\* a wait that lets the worker through whatever it receives
wait_until_running_mut(m) == "Ok"

\* wait_until_running applied to the outcome of the blocking recv
wait_until_running(m) ==
    IF m = "Disconnected" THEN "Err"
    ELSE IF to_general_state(m) = "Stopped" THEN "Err" ELSE "Ok"

\* SyncSender::send of the messages msgs on the status channel of w: the
\* call is recorded in sent, the message is queued while the receiver lives
can_send(w, n) == ~ReceiversAlive \/ Len(chan[w]) + n <= CHANNEL_SYNC_SIZE
chan_after(w, msgs) == IF ReceiversAlive THEN [chan EXCEPT ![w] = @ \o msgs] ELSE chan
sent_after(w, msgs) == [sent EXCEPT ![w] = @ \o msgs]

\* Bus::broadcast blocks while the slowest live reader lags a full bus behind
bus_has_room ==
    \A w \in Workers : pc[w] # "done" => Len(app_bus) - rx_app[w] < BUS_SIZE_APP_STATE

\* RunArgs.ng_process_handle is initialised to None and assigned nowhere
ng_process_handle == "None"

\* FlattenedNgScopeArgs.ng_start_process
ng_start_process == TRUE

\* the senders of the fetcher's command channel: tx_dci_thread (a local of
\* run) and its clone in run_args, dropped in finish after Stop was sent
fetcher_senders_alive == pc["ngcontrol"] = "loop"
\* rx_dci_thread is a local of run
fetcher_receiver_alive == pc["ngcontrol"] = "loop"
\* tx_dci moves into run and from there into the fetcher thread
tx_dci_alive ==
    \/ dci_state \notin {"none", "done"}
    \/ dci_state = "none" /\ pc["ngcontrol"] \in {"start", "wait"}


Init == RingIdle /\ CapIdle /\ LifeIdle /\ DciBusIdle /\ FnIdle

(***************************************************************************)
(* main                                                                    *)
(***************************************************************************)
Sigint ==
    /\ ~sigint
    /\ main_pc \notin {"returned", "exited"}
    /\ sigint' = TRUE
    /\ UNCHANGED <<mainVars, busVars, chanVars, pc, ngVars, dciVars, srcVars, genVars,
                   logger_state, ringVars, capVars, dciBusVars, fnVars>>

\* one iteration of the while loop of wait_all_running
Main_wait_all_running ==
    /\ main_pc = "wait_all_running"
    /\ waiting_for # {}
    /\ IF sigint
       THEN /\ main_pc' = "returned"
            /\ main_result' = "err"
            /\ UNCHANGED <<waiting_for, running_from, chan>>
       ELSE LET got == {w \in waiting_for : chan[w] # << >>}
                run == {w \in got : to_general_state(Head(chan[w])) = "Running"}
            IN  /\ chan' = [w \in Workers |-> IF w \in got THEN Tail(chan[w]) ELSE chan[w]]
                /\ waiting_for' = waiting_for \ run
                /\ running_from' = running_from \cup run
                /\ UNCHANGED <<main_pc, main_result>>
    /\ UNCHANGED <<app_state, sigint, busVars, sent, pc, ngVars, dciVars, srcVars, genVars,
                   logger_state, ringVars, capVars, dciBusVars, fnVars>>

\* main.rs 230-234: wait_all_running returned Ok
Main_broadcast_running ==
    /\ main_pc = "wait_all_running"
    /\ waiting_for = {}
    /\ bus_has_room
    /\ app_state' = "Running"
    /\ app_bus' = Append(app_bus, "Running")
    /\ main_pc' = "loop"
    /\ UNCHANGED <<main_result, waiting_for, running_from, rx_app, sigint, chanVars, pc,
                   ngVars, dciVars, srcVars, genVars, logger_state, ringVars, capVars, dciBusVars, fnVars>>

\* a precheck that sets NotifyStop whenever the SIGINT flag is set
Main_precheck_mut ==
    /\ main_pc = "loop"
    /\ app_state' = IF sigint THEN "NotifyStop" ELSE app_state
    /\ main_pc' = "match"
    /\ UNCHANGED <<main_result, waiting_for, running_from, busVars, chanVars, sigint, pc,
                   ngVars, dciVars, srcVars, genVars, logger_state, ringVars, capVars, dciBusVars, fnVars>>

\* main.rs 237-242: the precheck of a loop iteration reads the SIGINT flag
Main_precheck ==
    /\ main_pc = "loop"
    /\ app_state' = IF sigint /\ app_state # "Stopped" THEN "NotifyStop" ELSE app_state
    /\ main_pc' = "match"
    /\ UNCHANGED <<main_result, waiting_for, running_from, busVars, chanVars, sigint, pc,
                   ngVars, dciVars, srcVars, genVars, logger_state, ringVars, capVars, dciBusVars, fnVars>>

\* main.rs 245 and 263-274: the Running arm of the match, handle_running
Main_handle_running ==
    /\ main_pc = "match"
    /\ app_state = "Running"
    /\ IF chan["ngcontrol"] # << >>
       THEN /\ chan' = [chan EXCEPT !["ngcontrol"] = Tail(@)]
            /\ IF Head(chan["ngcontrol"]) = "SuccessfulTriggerResponse"
               THEN bus_has_room /\ app_bus' = Append(app_bus, "UeConnectionReset")
               ELSE UNCHANGED app_bus
            /\ main_pc' = "loop"
            /\ UNCHANGED main_result
       ELSE IF pc["ngcontrol"] = "done"
       THEN /\ main_pc' = "returned"
            /\ main_result' = "err"
            /\ UNCHANGED <<chan, app_bus>>
       ELSE main_pc' = "loop" /\ UNCHANGED <<chan, app_bus, main_result>>
    /\ UNCHANGED <<app_state, waiting_for, running_from, rx_app, sent, sigint, pc, ngVars,
                   dciVars, srcVars, genVars, logger_state, ringVars, capVars, dciBusVars, fnVars>>

\* tasks.iter().all(|task| task.is_finished())
all_tasks_finished == \A w \in Workers : pc[w] = "done"

\* main.rs 246-251: the Stopped arm of the match
Main_stopped ==
    /\ main_pc = "match"
    /\ app_state = "Stopped"
    /\ chan' = [w \in Workers |-> IF chan[w] # << >> THEN Tail(chan[w]) ELSE chan[w]]
    /\ IF all_tasks_finished
       THEN main_pc' = "returned" /\ main_result' = "ok"
       ELSE main_pc' = "loop" /\ UNCHANGED main_result
    /\ UNCHANGED <<app_state, waiting_for, running_from, busVars, sent, sigint, pc, ngVars,
                   dciVars, srcVars, genVars, logger_state, ringVars, capVars, dciBusVars, fnVars>>

\* main.rs 252-255: the NotifyStop arm of the match
Main_notify_stop ==
    /\ main_pc = "match"
    /\ app_state = "NotifyStop"
    /\ bus_has_room
    /\ app_state' = "Stopped"
    /\ app_bus' = Append(app_bus, "Stopped")
    /\ main_pc' = "loop"
    /\ UNCHANGED <<main_result, waiting_for, running_from, rx_app, chanVars, sigint,
                   pc, ngVars, dciVars, srcVars, genVars, logger_state, ringVars, capVars, dciBusVars, fnVars>>

\* the process ends once main has returned; every thread ends with it
Process_exit ==
    /\ main_pc = "returned"
    /\ main_pc' = "exited"
    /\ UNCHANGED <<main_result, app_state, waiting_for, running_from, busVars, chanVars,
                   sigint, pc, ngVars, dciVars, srcVars, genVars, logger_state, ringVars,
                   capVars, dciBusVars, fnVars>>

(***************************************************************************)
(* the workers                                                             *)
(***************************************************************************)
\* what finish(run_args) sends before it joins a sub-thread or ends
\* (cell_source has no finish: its closure is run alone)
finish_msgs(w) ==
    IF w \in {"model", "logger"} THEN <<"Stopped">>
    ELSE IF w = "rntimatcher" THEN <<"StoppingTrafficGeneratorThread">>
    ELSE IF w = "ngcontrol" THEN <<"StoppingDciFetcherThread">>
    ELSE << >>

\* where the thread stands after that: joining its sub-thread, or ended
after_finish(w) == IF w \in {"rntimatcher", "ngcontrol"} THEN "join" ELSE "done"

\* wait_for_running of w, on failure: model_handler's does not send
wait_failed_msgs(w) == IF w = "model" THEN << >> ELSE <<"Stopped">>

\* first statement of every run: tx_.._state.send(..::Running)?; when the
\* send fails run returns and the closure goes on to finish
Worker_send_running(w) ==
    /\ pc[w] = "start"
    /\ ThreadsAlive
    /\ LET msgs == IF ReceiversAlive THEN <<"Running">>
                   ELSE <<"Running">> \o finish_msgs(w)
       IN  /\ can_send(w, Len(msgs))
           /\ sent' = sent_after(w, msgs)
           /\ chan' = chan_after(w, msgs)
    /\ pc' = [pc EXCEPT ![w] = IF ReceiversAlive THEN "wait" ELSE after_finish(w)]
    /\ UNCHANGED <<mainVars, sigint, busVars, ngVars, dciVars, srcVars, genVars,
                   logger_state, ringVars, capVars, dciBusVars, fnVars>>

\* wait_for_running of each worker; when it succeeds, the set-up up to the
\* loop (the sub-threads of ngcontrol and rntimatcher are deployed here);
\* when it fails, the return from run and finish up to its join
Worker_wait_for_running(w) ==
    /\ pc[w] = "wait"
    /\ ThreadsAlive
    /\ app_try_recv(w) # "Empty"
    /\ rx_app' = rx_app_after(w)
    /\ UNCHANGED app_bus
    /\ IF wait_until_running(app_try_recv(w)) = "Ok"
       THEN /\ pc' = [pc EXCEPT ![w] = "loop"]
            /\ dci_state' = IF w = "ngcontrol" THEN "init" ELSE dci_state
            /\ gen_state' = IF w = "rntimatcher" THEN "run" ELSE gen_state
            /\ UNCHANGED chanVars
       ELSE /\ pc' = [pc EXCEPT ![w] = after_finish(w)]
            /\ LET msgs == wait_failed_msgs(w) \o finish_msgs(w)
               IN  /\ can_send(w, Len(msgs))
                   /\ sent' = sent_after(w, msgs)
                   /\ chan' = chan_after(w, msgs)
            /\ UNCHANGED <<dci_state, gen_state>>
    /\ UNCHANGED <<mainVars, sigint, ngVars, to_fetcher, from_fetcher, srcVars,
                   logger_state, ringVars, capVars, dciBusVars, fnVars>>

\* the cell infos a retrieval may return: no cell, or one cell
CellInfos == 0 .. 1

\* cell_source.rs 86-117: one loop iteration, or the break and the final state
Source_loop ==
    /\ pc["source"] = "loop"
    /\ ThreadsAlive
    /\ rx_app' = rx_app_after("source")
    /\ UNCHANGED app_bus
    /\ IF check_not_stopped(app_try_recv("source")) = "Err"
       THEN /\ can_send("source", 1)
            /\ sent' = sent_after("source", <<"Stopped">>)
            /\ chan' = chan_after("source", <<"Stopped">>)
            /\ pc' = [pc EXCEPT !["source"] = "done"]
            /\ UNCHANGED srcVars
       ELSE /\ \E retrieved \in CellInfos \cup {-1} :
                  IF retrieved # -1 /\ retrieved # last_cell_info
                  THEN /\ nof_cell_updates < MaxCellUpdates
                       /\ cell_q' = IF pc["ngcontrol"] # "done"
                                    THEN Append(cell_q, retrieved) ELSE cell_q
                       /\ last_cell_info' = retrieved
                       /\ nof_cell_updates' = nof_cell_updates + 1
                  ELSE UNCHANGED srcVars
            /\ UNCHANGED <<chanVars, pc>>
    /\ UNCHANGED <<mainVars, sigint, ngVars, dciVars, genVars, logger_state, ringVars,
                   capVars, dciBusVars, fnVars>>

\* model_handler.rs 210-251 and finish: the precheck of one loop iteration;
\* on a break, the final state
Model_loop ==
    /\ pc["model"] = "loop"
    /\ ThreadsAlive
    /\ rx_app' = rx_app_after("model")
    /\ UNCHANGED app_bus
    /\ IF \/ check_not_stopped(app_try_recv("model")) = "Err"
          \/ ~tx_dci_alive
          \/ pc["source"] = "done"
          \/ pc["rntimatcher"] = "done"
       THEN /\ can_send("model", 1)
            /\ sent' = sent_after("model", finish_msgs("model"))
            /\ chan' = chan_after("model", finish_msgs("model"))
            /\ pc' = [pc EXCEPT !["model"] = after_finish("model")]
       ELSE UNCHANGED <<chanVars, pc>>
    /\ UNCHANGED <<mainVars, sigint, ngVars, dciVars, srcVars, genVars, logger_state,
                   ringVars, capVars, dciBusVars, fnVars>>

\* logger.rs 141-173: one loop iteration; on a break, the final state
Logger_loop ==
    /\ pc["logger"] = "loop"
    /\ ThreadsAlive
    /\ rx_app' = rx_app_after("logger")
    /\ UNCHANGED app_bus
    /\ LET state == IF check_not_stopped(app_try_recv("logger")) = "Err"
                    THEN "InitStopLoggingSoon" ELSE logger_state
       IN  IF state = "Running"
           THEN UNCHANGED <<logger_state, pc, chanVars>>
           ELSE IF state = "InitStopLoggingSoon"
           THEN logger_state' = "StopLoggingSoon" /\ UNCHANGED <<pc, chanVars>>
           ELSE \E delay_elapsed \in BOOLEAN :
                    IF delay_elapsed
                    THEN /\ can_send("logger", 1)
                         /\ sent' = sent_after("logger", finish_msgs("logger"))
                         /\ chan' = chan_after("logger", finish_msgs("logger"))
                         /\ pc' = [pc EXCEPT !["logger"] = after_finish("logger")]
                         /\ UNCHANGED logger_state
                    ELSE UNCHANGED <<logger_state, pc, chanVars>>
    /\ UNCHANGED <<mainVars, sigint, ngVars, dciVars, srcVars, genVars, ringVars, capVars, dciBusVars, fnVars>>

\* rnti_matcher.rs 230-239 and 418-424: the precheck of one loop iteration;
\* on a break, finish up to the join (Stop is sent to the generator)
Rnti_loop ==
    /\ pc["rntimatcher"] = "loop"
    /\ ThreadsAlive
    /\ rx_app' = rx_app_after("rntimatcher")
    /\ UNCHANGED app_bus
    /\ IF check_not_stopped(app_try_recv("rntimatcher")) = "Err"
       THEN /\ can_send("rntimatcher", 1)
            /\ sent' = sent_after("rntimatcher", finish_msgs("rntimatcher"))
            /\ chan' = chan_after("rntimatcher", finish_msgs("rntimatcher"))
            /\ pc' = [pc EXCEPT !["rntimatcher"] = after_finish("rntimatcher")]
       ELSE UNCHANGED <<chanVars, pc>>
    /\ UNCHANGED <<mainVars, sigint, ngVars, dciVars, srcVars, genVars, logger_state,
                   ringVars, capVars, dciBusVars, fnVars>>

\* rnti_matcher.rs 425-428: join the generator, send the final state
Rnti_join ==
    /\ pc["rntimatcher"] = "join"
    /\ ThreadsAlive
    /\ gen_state \in {"none", "done"}
    /\ can_send("rntimatcher", 1)
    /\ sent' = sent_after("rntimatcher", <<"Stopped">>)
    /\ chan' = chan_after("rntimatcher", <<"Stopped">>)
    /\ pc' = [pc EXCEPT !["rntimatcher"] = "done"]
    /\ UNCHANGED <<mainVars, sigint, busVars, ngVars, dciVars, srcVars, genVars,
                   logger_state, ringVars, capVars, dciBusVars, fnVars>>

\* run_traffic_generator: leaves its loop on Stop, when its command channel
\* or the metric bus (owned by the model handler) is disconnected
Gen_loop ==
    /\ gen_state = "run"
    /\ ThreadsAlive
    /\ \/ pc["rntimatcher"] \in {"join", "done"}
       \/ pc["model"] = "done"
    /\ gen_state' = "done"
    /\ UNCHANGED <<mainVars, sigint, busVars, chanVars, pc, ngVars, dciVars, srcVars,
                   logger_state, ringVars, capVars, dciBusVars, fnVars>>

(***************************************************************************)
(* NgControl: controller thread, DCI fetcher thread, sniffer process       *)
(***************************************************************************)
SleepMs(next_state) == "SleepMs:" \o next_state

\* what one pass through the match of run leaves behind
NgStep ==
    [exit |-> FALSE, state |-> ngcontrol_state, process |-> ng_process_option,
     alive |-> sniffer_alive, to_f |-> to_fetcher, from_f |-> from_fetcher,
     cells |-> cell_q, status |-> << >>]

NgExit == [NgStep EXCEPT !.exit = TRUE]

\* handle_cell_update, check_cell_update
handle_cell_update ==
    IF cell_q # << >>
    THEN {[NgStep EXCEPT !.cells = Tail(cell_q),
                         !.state = IF Head(cell_q) = 0 THEN "StopNgScope"
                                   ELSE "StartNgScope"]}
    ELSE IF pc["source"] = "done" THEN {NgExit} ELSE {NgStep}

\* the arms of the match in run, lines 124-182
ngcontrol_match ==
    IF ngcontrol_state = "CheckingCellInfo" THEN handle_cell_update
    ELSE IF ngcontrol_state = "TriggerListenDci"
    THEN IF dci_state = "done" THEN {NgExit}
         ELSE {[NgStep EXCEPT !.to_f = Append(to_fetcher, "SendInitial"),
                              !.state = "WaitForTriggerResponse"]}
    ELSE IF ngcontrol_state = "WaitForTriggerResponse"
    THEN IF from_fetcher # << >>
         THEN {[NgStep EXCEPT !.from_f = Tail(from_fetcher),
                              !.state = IF Head(from_fetcher) = "SuccessfulAuth"
                                        THEN "SuccessfulTriggerResponse"
                                        ELSE SleepMs("WaitForTriggerResponse")]}
         ELSE IF dci_state = "done" THEN {NgExit}
         ELSE {[NgStep EXCEPT !.state = SleepMs("WaitForTriggerResponse")]}
    ELSE IF ngcontrol_state = "SuccessfulTriggerResponse"
    THEN {[NgStep EXCEPT !.status = <<"SuccessfulTriggerResponse">>,
                         !.exit = ~ReceiversAlive,
                         !.state = IF ReceiversAlive THEN "CheckingCellInfo"
                                   ELSE ngcontrol_state]}
    ELSE IF ngcontrol_state = SleepMs("TriggerListenDci")
    THEN {[NgStep EXCEPT !.state = "TriggerListenDci"]}
    ELSE IF ngcontrol_state = SleepMs("WaitForTriggerResponse")
    THEN {[NgStep EXCEPT !.state = "WaitForTriggerResponse"]}
    ELSE IF ngcontrol_state = SleepMs("StartNgScope")
    THEN {[NgStep EXCEPT !.state = "StartNgScope"]}
    ELSE IF ngcontrol_state = "StartNgScope"
    THEN \* stop_ngscope of the previous child, then handle_start_ngscope
         {[NgStep EXCEPT !.state = SleepMs("TriggerListenDci"),
                         !.process = IF ng_start_process THEN "Some" ELSE "None",
                         !.alive = ng_start_process],
          [NgStep EXCEPT !.state = SleepMs("StartNgScope"), !.alive = FALSE]}
    ELSE \* StopNgScope
         {[NgStep EXCEPT !.alive = FALSE, !.state = "CheckingCellInfo"]}

\* finish, lines 193-195: Stop goes to the fetcher if it was deployed and
\* its receiver still exists
stop_to_fetcher(queue) ==
    IF dci_state \notin {"none", "done"} THEN Append(queue, "Stop") ELSE queue

\* ngscope_controller.rs 116-183: one loop iteration; on a break or an
\* error, the return from run and finish up to its join
NgControl_loop ==
    /\ pc["ngcontrol"] = "loop"
    /\ ThreadsAlive
    /\ rx_app' = rx_app_after("ngcontrol")
    /\ UNCHANGED <<app_bus, dci_state>>
    /\ \E step \in IF check_not_stopped(app_try_recv("ngcontrol")) = "Err"
                   THEN {NgExit} ELSE ngcontrol_match :
          LET msgs == IF step.exit THEN step.status \o finish_msgs("ngcontrol")
                      ELSE step.status
              queue == IF step.exit THEN stop_to_fetcher(step.to_f) ELSE step.to_f
          IN  /\ can_send("ngcontrol", Len(msgs))
              /\ Len(queue) <= CHANNEL_SYNC_SIZE
              /\ sent' = sent_after("ngcontrol", msgs)
              /\ chan' = chan_after("ngcontrol", msgs)
              /\ to_fetcher' = queue
              /\ from_fetcher' = step.from_f
              /\ cell_q' = step.cells
              /\ ngcontrol_state' = step.state
              /\ ng_process_option' = step.process
              /\ sniffer_alive' = step.alive
              /\ pc' = [pc EXCEPT !["ngcontrol"] =
                           IF step.exit THEN after_finish("ngcontrol") ELSE "loop"]
    /\ UNCHANGED <<mainVars, sigint, last_cell_info, nof_cell_updates, genVars, logger_state,
                   ringVars, capVars, dciBusVars, fnVars>>

\* finish, lines 197-206: join the fetcher, stop the process held in
\* run_args.ng_process_handle, send the final state
NgControl_join ==
    /\ pc["ngcontrol"] = "join"
    /\ ThreadsAlive
    /\ dci_state \in {"none", "done"}
    /\ LET msgs == IF ng_process_handle = "Some"
                   THEN <<"StoppingNgScopeProcess", "Stopped">> ELSE <<"Stopped">>
       IN  /\ can_send("ngcontrol", Len(msgs))
           /\ sent' = sent_after("ngcontrol", msgs)
           /\ chan' = chan_after("ngcontrol", msgs)
    /\ sniffer_alive' = IF ng_process_handle = "Some" THEN FALSE ELSE sniffer_alive
    /\ pc' = [pc EXCEPT !["ngcontrol"] = "done"]
    /\ UNCHANGED <<mainVars, sigint, busVars, ngcontrol_state, ng_process_option, dciVars,
                   srcVars, genVars, logger_state, ringVars, capVars, dciBusVars, fnVars>>

\* run_dci_fetcher, line 286: init_dci_server binds the local socket
Fetcher_init ==
    /\ dci_state = "init"
    /\ ThreadsAlive
    /\ \E bound \in BOOLEAN : dci_state' = IF bound THEN "ListenForDci" ELSE "done"
    /\ UNCHANGED <<mainVars, sigint, busVars, chanVars, pc, ngVars, to_fetcher,
                   from_fetcher, srcVars, genVars, logger_state, ringVars, capVars, dciBusVars, fnVars>>

\* run_dci_fetcher, lines 298-341: one loop iteration
Fetcher_loop ==
    /\ dci_state \notin {"none", "init", "done"}
    /\ ThreadsAlive
    /\ LET has_msg == to_fetcher # << >>
           state == IF has_msg THEN Head(to_fetcher) ELSE dci_state
       IN  /\ to_fetcher' = IF has_msg THEN Tail(to_fetcher) ELSE to_fetcher
           /\ IF ~has_msg /\ ~fetcher_senders_alive
              THEN dci_state' = "done" /\ UNCHANGED from_fetcher
              ELSE \/ /\ state = "Stop"
                      /\ dci_state' = "done"
                      /\ UNCHANGED from_fetcher
                   \/ /\ state = "SendInitial"
                      /\ dci_state' = "WaitForServerAuth0"
                      /\ UNCHANGED from_fetcher
                   \/ /\ state \in {"WaitForServerAuth0", "WaitForServerAuth1"}
                      \* ngscope_validate_server_check on the next frame
                      /\ \E frame \in {"valid", "none", "Exit"} :
                            dci_state' =
                                IF frame = "Exit" THEN "done"
                                ELSE IF frame = "none" THEN state
                                ELSE IF state = "WaitForServerAuth1" THEN "SuccessfulAuth"
                                ELSE "WaitForServerAuth1"
                      /\ UNCHANGED from_fetcher
                   \/ /\ state = "SuccessfulAuth"
                      /\ IF fetcher_receiver_alive
                         THEN /\ Len(from_fetcher) < CHANNEL_SYNC_SIZE
                              /\ from_fetcher' = Append(from_fetcher, "SuccessfulAuth")
                              /\ dci_state' = "ListenForDci"
                         ELSE dci_state' = "done" /\ UNCHANGED from_fetcher
                   \/ /\ state = "ListenForDci"
                      /\ dci_state' = "ListenForDci"
                      /\ UNCHANGED from_fetcher
    /\ UNCHANGED <<mainVars, sigint, busVars, chanVars, pc, ngVars, srcVars, genVars,
                   logger_state, ringVars, capVars, dciBusVars, fnVars>>

Next ==
    \/ Sigint
    \/ Main_wait_all_running
    \/ Main_broadcast_running
    \/ Main_precheck
    \/ Main_handle_running
    \/ Main_stopped
    \/ Main_notify_stop
    \/ Process_exit
    \/ \E w \in Workers : Worker_send_running(w)
    \/ \E w \in Workers : Worker_wait_for_running(w)
    \/ Source_loop
    \/ Model_loop
    \/ Logger_loop
    \/ Rnti_loop
    \/ Rnti_join
    \/ Gen_loop
    \/ NgControl_loop
    \/ NgControl_join
    \/ Fetcher_init
    \/ Fetcher_loop

Spec == Init /\ [][Next]_vars

(***************************************************************************)
(* The DCI bus: the fetcher in ListenForDci as the producer, the readers   *)
(* of the ModelHandler and the RntiMatcher as subscribers                  *)
(***************************************************************************)
BUS_SIZE_DCI == 2
MaxFrames == 5

Live == {r \in Subscribers : rx_dci_alive[r]}

\* Bus::try_broadcast succeeds unless a live reader lags a full bus behind
dci_bus_has_room == \A r \in Live : Len(tx_dci) - rx_dci[r] < BUS_SIZE_DCI

\* a fetcher that gives up a message the bus did not take
on_bus_full_mut(msg) == 0

\* Err(msg) => tx_dci.broadcast(msg): the message the blocking call holds
on_bus_full(msg) == msg

InitDci == RingIdle /\ CapIdle /\ LifeIdle /\ DciBusIdle /\ FnIdle

\* ngscope/types.rs: the sizes of a frame's parts
NGSCOPE_MESSAGE_TYPE_SIZE == 4
NGSCOPE_MESSAGE_VERSION_POSITION == 4
NGSCOPE_MESSAGE_CONTENT_POSITION == 5
NGSCOPE_STRUCT_SIZE_DCI == 40
NGSCOPE_STRUCT_SIZE_CELL_DCI == 448
NGSCOPE_STRUCT_SIZE_CONFIG == 12

\* a frame is its first four bytes, by the message type they spell (unknown:
\* none of the five), and its length; a frame shorter than the preamble has
\* no type
FramePreambles == {"Start", "Dci", "CellDci", "Config", "Exit", "unknown"}
FrameLens ==
    {3, 4, 5, NGSCOPE_MESSAGE_CONTENT_POSITION + NGSCOPE_STRUCT_SIZE_CONFIG,
     NGSCOPE_MESSAGE_CONTENT_POSITION + NGSCOPE_STRUCT_SIZE_DCI,
     NGSCOPE_MESSAGE_CONTENT_POSITION + NGSCOPE_STRUCT_SIZE_CELL_DCI}
Frames ==
    {f \in [preamble : FramePreambles, len : FrameLens] :
        f.len < NGSCOPE_MESSAGE_TYPE_SIZE => f.preamble = "unknown"}

MessageType_from_bytes(preamble) == IF preamble = "unknown" THEN None ELSE Some(preamble)

\* content_bytes.try_into()? into the array the struct is cast from
content_try_into(content_len, struct_size, msg) ==
    IF content_len = struct_size THEN Ok(msg) ELSE Err

\* Message::from_bytes: bytes[4] and Option::unwrap panic
Message_from_bytes(frame) ==
    IF frame.len < NGSCOPE_MESSAGE_TYPE_SIZE THEN Err
    ELSE IF ~(NGSCOPE_MESSAGE_VERSION_POSITION < frame.len) THEN Panic
    ELSE IF MessageType_from_bytes(frame.preamble).kind = "None" THEN Panic
    ELSE LET content_len == frame.len - NGSCOPE_MESSAGE_CONTENT_POSITION
         IN  CASE frame.preamble = "Start" -> Ok("Start")
               [] frame.preamble = "Dci" ->
                      content_try_into(content_len, NGSCOPE_STRUCT_SIZE_DCI, "Dci")
               [] frame.preamble = "CellDci" ->
                      content_try_into(content_len, NGSCOPE_STRUCT_SIZE_CELL_DCI, "CellDci")
               [] frame.preamble = "Config" ->
                      content_try_into(content_len, NGSCOPE_STRUCT_SIZE_CONFIG, "Config")
               [] frame.preamble = "Exit" -> Ok("Exit")

\* ngscope_recv_single_message: recv_from(..)? and Message::from_bytes
ngscope_recv_single_message(frame) ==
    IF frame = NoFrame THEN Err ELSE Message_from_bytes(frame)

\* check_ngscope_message: one call in the ListenForDci arm of the fetcher.
\* Only Ok(Message::CellDci) is broadcast; an Err is ignored; a panic ends
\* the fetcher thread
Fetcher_check_ngscope_message ==
    /\ fetcher_alive
    /\ fetcher_blocked = 0
    /\ \E frame \in Frames \cup {NoFrame} :
          LET msg == ngscope_recv_single_message(frame)
          IN  /\ last_frame' = frame
              /\ fetcher_alive' = (msg.kind # "panic")
              /\ IF msg.kind = "Ok" /\ msg.value = "CellDci"
                 THEN /\ nof_parsed < MaxFrames
                      /\ nof_parsed' = nof_parsed + 1
                      /\ IF dci_bus_has_room
                         THEN /\ tx_dci' = Append(tx_dci, nof_parsed + 1)
                              /\ UNCHANGED <<fetcher_blocked, nof_bus_full>>
                         ELSE /\ fetcher_blocked' = on_bus_full(nof_parsed + 1)
                              /\ nof_bus_full' = nof_bus_full + 1
                              /\ UNCHANGED tx_dci
                 ELSE UNCHANGED <<nof_parsed, tx_dci, fetcher_blocked, nof_bus_full>>
    /\ UNCHANGED <<rx_dci, rx_dci_alive, dci_received, ringVars, capVars, lifeVars, fnVars>>

\* the blocking tx_dci.broadcast(msg) returns once the bus has room
Fetcher_broadcast ==
    /\ fetcher_alive
    /\ fetcher_blocked # 0
    /\ dci_bus_has_room
    /\ tx_dci' = Append(tx_dci, fetcher_blocked)
    /\ fetcher_blocked' = 0
    /\ UNCHANGED <<frameVars, nof_parsed, nof_bus_full, rx_dci, rx_dci_alive, dci_received, ringVars,
                   capVars, lifeVars, fnVars>>

\* model_handler.rs 216-222: rx_dci.try_recv() once per loop iteration
Model_try_recv_dci ==
    /\ rx_dci_alive["model"]
    /\ rx_dci["model"] < Len(tx_dci)
    /\ dci_received' = [dci_received EXCEPT !["model"] =
                            Append(@, tx_dci[rx_dci["model"] + 1])]
    /\ rx_dci' = [rx_dci EXCEPT !["model"] = @ + 1]
    /\ UNCHANGED <<frameVars, nof_parsed, tx_dci, rx_dci_alive, fetcher_blocked, nof_bus_full, ringVars,
                   capVars, lifeVars, fnVars>>

\* collect_dcis: try_recv until the reader is empty
Rnti_collect_dcis ==
    /\ rx_dci_alive["rntimatcher"]
    /\ rx_dci["rntimatcher"] < Len(tx_dci)
    /\ dci_received' = [dci_received EXCEPT !["rntimatcher"] =
                            @ \o SubSeq(tx_dci, rx_dci["rntimatcher"] + 1, Len(tx_dci))]
    /\ rx_dci' = [rx_dci EXCEPT !["rntimatcher"] = Len(tx_dci)]
    /\ UNCHANGED <<frameVars, nof_parsed, tx_dci, rx_dci_alive, fetcher_blocked, nof_bus_full, ringVars,
                   capVars, lifeVars, fnVars>>

\* a subscriber's thread ends and drops its reader
Subscriber_drop(r) ==
    /\ rx_dci_alive[r]
    /\ rx_dci_alive' = [rx_dci_alive EXCEPT ![r] = FALSE]
    /\ UNCHANGED <<frameVars, nof_parsed, tx_dci, rx_dci, dci_received, fetcher_blocked, nof_bus_full,
                   ringVars, capVars, lifeVars, fnVars>>

NextDci ==
    \/ Fetcher_check_ngscope_message
    \/ Fetcher_broadcast
    \/ Model_try_recv_dci
    \/ Rnti_collect_dcis
    \/ \E r \in Subscribers : Subscriber_drop(r)

SpecDci == InitDci /\ [][NextDci]_vars

(***************************************************************************)
(* SpecRtt: the downloader's RTT marker extraction (downloader.rs 486-528) *)
(***************************************************************************)
marker_start == <<170, 171, 172>>       \* AA AB AC
marker_end == <<186, 187, 188>>         \* BA BB BC

\* buffer[from..].starts_with(marker), from counted from 0
starts_with_at(buffer, from, marker) ==
    /\ from + Len(marker) <= Len(buffer)
    /\ \A i \in 1 .. Len(marker) : buffer[from + i] = marker[i]

\* the four bytes from index at (counted from 0), shifted and or-ed as u32
rtt_be32(buffer, at) ==
    buffer[at + 1] * 2 ^ 24 + buffer[at + 2] * 2 ^ 16 + buffer[at + 3] * 2 ^ 8
        + buffer[at + 4]

\* the loop of try_to_extract_last_rtt, entered at possible_start_index
RECURSIVE rtt_scan(_, _)
rtt_scan(buffer, possible_start_index) ==
    LET possible_end_index == possible_start_index + 7
    IN  IF /\ starts_with_at(buffer, possible_start_index, marker_start)
           /\ starts_with_at(buffer, possible_end_index, marker_end)
        THEN Some(rtt_be32(buffer, possible_start_index + 3))
        ELSE IF possible_start_index > 0
        THEN rtt_scan(buffer, possible_start_index - 1)
        ELSE None

\* try_to_extract_last_rtt.  For a buffer of 10 bytes buffer.len() - 10 - 1
\* leaves usize: with overflow checks the subtraction panics, without them
\* it wraps to usize::MAX and buffer[usize::MAX..] panics
try_to_extract_last_rtt(buffer) ==
    IF Len(buffer) < 10 THEN None
    ELSE IF Len(buffer) - 10 - 1 < 0 THEN Panic
    ELSE rtt_scan(buffer, Len(buffer) - 10 - 1)

\* try_to_decode_rtt: the result and the new *last_rtt_us
try_to_decode_rtt(buffer, last_rtt_us) ==
    LET partial_buffer == IF Len(buffer) > 40
                          THEN SubSeq(buffer, Len(buffer) - 40 + 1, Len(buffer))
                          ELSE buffer
        extracted == try_to_extract_last_rtt(partial_buffer)
    IN  IF extracted.kind = "panic" THEN [out |-> Panic, last |-> last_rtt_us]
        ELSE IF extracted.kind = "Some" THEN [out |-> extracted, last |-> extracted]
        ELSE [out |-> last_rtt_us, last |-> last_rtt_us]

\* the buffers tried: padding, a short prefix, a marker or something close
\* to one, and at most one byte after it
RttMarker(x) == marker_start \o x \o marker_end
\* x1 stays below 128 so that the value fits the model checker's integers
RttPayloads == {<<0, 0, 0, 0>>, <<1, 2, 3, 4>>, <<127, 255, 255, 255>>, <<0, 170, 171, 172>>}
RttMiddles ==
    {RttMarker(x) : x \in RttPayloads}
        \cup {<<171, 171, 172, 1, 2, 3, 4, 186, 187, 188>>,
              <<170, 171, 172, 1, 2, 3, 4, 186, 187, 187>>,
              <<170, 171, 172, 1, 2, 3, 4, 186, 187>>,
              <<0, 0, 0, 0, 0>>, << >>}
RttPrefixes == {<< >>, <<0>>, <<170>>, <<0, 0>>, <<170, 171>>, RttMarker(<<0, 0, 1, 0>>)}
RttSuffixes == {<< >>, <<0>>, <<188>>}
RttPads == {0, 31}
RttBuffers ==
    {Rep(0, n) \o pre \o mid \o post :
        n \in RttPads, pre \in RttPrefixes, mid \in RttMiddles, post \in RttSuffixes}

InitRtt ==
    /\ RingIdle /\ CapIdle /\ LifeIdle /\ DciBusIdle /\ MatchIdle /\ NgxIdle /\ AuxIdle
    /\ rtt_buffer \in RttBuffers
    /\ rtt_last \in {None, Some(7)}
    /\ rtt_extracted = NotCalled
    /\ rtt_decoded = NotCalled

RttExtract ==
    /\ rtt_extracted = NotCalled
    /\ rtt_decoded = NotCalled
    /\ rtt_extracted' = try_to_extract_last_rtt(rtt_buffer)
    /\ UNCHANGED <<rtt_buffer, rtt_last, rtt_decoded, matchVars, ngxVars, auxVars, ringVars, capVars,
                   lifeVars, dciBusVars>>

RttDecode ==
    /\ rtt_decoded = NotCalled
    /\ LET r == try_to_decode_rtt(rtt_buffer, rtt_last)
       IN  rtt_decoded' = r.out /\ rtt_last' = r.last
    /\ UNCHANGED <<rtt_buffer, rtt_extracted, matchVars, ngxVars, auxVars, ringVars, capVars, lifeVars,
                   dciBusVars>>

NextRtt == RttExtract \/ RttDecode

SpecRtt == InitRtt /\ [][NextRtt]_vars

(***************************************************************************)
(* C12 as claimed: for a buffer whose last 10 bytes are AA AB AC x1 x2 x3  *)
(* x4 BA BB BC the extraction returns the big-endian u32 of x1..x4, and    *)
(* for a buffer of any length without the marker it returns None and does  *)
(* not fail.                                                               *)
(***************************************************************************)
EndsInMarker(b) ==
    /\ Len(b) >= 10
    /\ SubSeq(b, Len(b) - 9, Len(b) - 7) = marker_start
    /\ SubSeq(b, Len(b) - 2, Len(b)) = marker_end

HasMarker(b) == \E n \in 10 .. Len(b) : EndsInMarker(SubSeq(b, 1, n))

BigEndian(b) == b[Len(b) - 6] * 16777216 + b[Len(b) - 5] * 65536 + b[Len(b) - 4] * 256
                    + b[Len(b) - 3]

C12_RttExtraction ==
    rtt_extracted # NotCalled =>
        /\ EndsInMarker(rtt_buffer) => rtt_extracted = Some(BigEndian(rtt_buffer))
        /\ ~HasMarker(rtt_buffer) => rtt_extracted = None

(***************************************************************************)
(* SpecMatch, SpecFilter: the RNTI matcher's TrafficCollection             *)
(* (rnti_matcher.rs 134-166 and 644-941, math_util.rs)                     *)
(*                                                                         *)
(* f64 features are kept as integers: a feature f is held as FeatScale * f *)
(* and a standardized feature as FeatScale * StdScale * f, which is exact  *)
(* for lists of 1 to 3 entries and standard deviations dividing StdScale.  *)
(* A distance is held as its square times 1000 * (FeatScale * StdScale)^2; *)
(* the square root is monotonic, so the order of distances is kept.        *)
(***************************************************************************)
FeatScale == 36
StdScale == 2

\* rnti -> UeTraffic of one cell; total_ul_bytes is the sum update_from_cell_dci keeps
UeTraffic(traffic) ==
    [traffic |-> traffic, total_ul_bytes |-> SumOver(DOMAIN traffic, traffic)]

\* the insertion orders a HashMap may iterate in
Orders(S) == {o \in [1 .. Cardinality(S) -> S] : \A x \in S : \E i \in DOMAIN o : o[i] = x}

\* the keys of a map, ascending
RECURSIVE sorted_keys(_)
sorted_keys(S) ==
    IF S = {} THEN << >>
    ELSE LET x == CHOOSE y \in S : \A z \in S : y <= z
         IN  <<x>> \o sorted_keys(S \ {x})

RECURSIVE sort_list(_)
sort_list(list) ==
    IF list = << >> THEN << >>
    ELSE LET i == CHOOSE k \in 1 .. Len(list) : \A j \in 1 .. Len(list) : list[k] <= list[j]
         IN  <<list[i]>> \o sort_list(SubSeq(list, 1, i - 1) \o SubSeq(list, i + 1, Len(list)))

calculate_mean_variance(list) ==
    LET total_packets == Len(list)
        sum == SeqSum(list)
        squares == SeqSum([i \in 1 .. Len(list) |-> list[i] * list[i]])
    IN  IF total_packets <= 0 THEN [ok |-> FALSE, mean |-> 0, variance |-> 0]
        ELSE [ok |-> TRUE,
              mean |-> (FeatScale * sum) \div total_packets,
              variance |-> (FeatScale * (total_packets * squares - sum * sum))
                               \div (total_packets * total_packets)]

calculate_median(list) ==
    LET len == Len(list)
        sorted_list == sort_list(list)
    IN  IF len = 0 THEN [ok |-> FALSE, median |-> 0]
        ELSE IF len % 2 = 0
        THEN [ok |-> TRUE,
              median |-> (FeatScale * (sorted_list[len \div 2] + sorted_list[len \div 2 + 1]))
                             \div 2]
        ELSE [ok |-> TRUE, median |-> FeatScale * sorted_list[len \div 2 + 1]]

feature_total_ul_bytes(ue) == FeatScale * ue.total_ul_bytes

feature_dci_count(ue) == FeatScale * Cardinality(DOMAIN ue.traffic)

feature_dci_time_delta_median_mean_variance(ue) ==
    LET sorted_timestamps == sorted_keys(DOMAIN ue.traffic)
        timestamp_deltas == [i \in 1 .. Len(sorted_timestamps) - 1 |->
                                sorted_timestamps[i + 1] - sorted_timestamps[i]]
        mv == calculate_mean_variance(timestamp_deltas)
        md == calculate_median(timestamp_deltas)
    IN  [ok |-> mv.ok /\ md.ok, median |-> md.median, mean |-> mv.mean,
         variance |-> mv.variance]

feature_ul_bytes_median_mean_variance(ue) ==
    LET keys == sorted_keys(DOMAIN ue.traffic)
        ul_bytes == [i \in 1 .. Len(keys) |-> ue.traffic[keys[i]]]
        mv == calculate_mean_variance(ul_bytes)
        md == calculate_median(ul_bytes)
    IN  [ok |-> mv.ok /\ md.ok, median |-> md.median, mean |-> mv.mean,
         variance |-> mv.variance]

\* (feature - mean) / std_deviation over the zip of the two vectors
standardize_feature_vec(feature_vec, std_vec) ==
    [i \in 1 .. Min(Len(feature_vec), Len(std_vec)) |->
        ((feature_vec[i] - FeatScale * std_vec[i][1]) * StdScale) \div std_vec[i][2]]

generate_standardized_feature_vec(ue, std_vec) ==
    LET ul == feature_ul_bytes_median_mean_variance(ue)
        tx == feature_dci_time_delta_median_mean_variance(ue)
        non_std_feature_vec ==
            <<feature_dci_count(ue), feature_total_ul_bytes(ue), ul.median, ul.mean,
              ul.variance, tx.median, tx.mean, tx.variance>>
    IN  IF ~ul.ok \/ ~tx.ok THEN Err
        ELSE Ok(standardize_feature_vec(non_std_feature_vec, std_vec))

\* the weightings times 1000
MATCHING_WEIGHTINGS == <<500, 300, 100, 20, 20, 20, 20, 20>>

\* one row of calculate_weighted_euclidean_distance_matrix, before the square root
weighted_squared_diff(vec_a, vec_b, weightings) ==
    SeqSum([i \in 1 .. Len(weightings) |->
               weightings[i] * (vec_a[i] - vec_b[i]) * (vec_a[i] - vec_b[i])])

\* the closure of feature_distance_matrices for one cell, whose HashMap of
\* RNTIs iterates in rnti_order: the vectors of all RNTIs (`?` on the first
\* error), the distances, the stable sort and first().unwrap()
feature_distance_cell(cell_traffic, pattern, rnti_order) ==
    LET standardized_feature_vecs ==
            [i \in 1 .. Len(rnti_order) |->
                generate_standardized_feature_vec(cell_traffic.traffic[rnti_order[i]],
                                                  pattern.std_vec)]
        euclidean_distances ==
            [i \in 1 .. Len(rnti_order) |->
                weighted_squared_diff(pattern.std_feature_vec,
                                      standardized_feature_vecs[i].value,
                                      MATCHING_WEIGHTINGS)]
    IN  IF \E i \in 1 .. Len(rnti_order) : standardized_feature_vecs[i].kind = "Err"
        THEN Err
        ELSE IF rnti_order = << >> THEN Panic
        ELSE LET first == CHOOSE i \in 1 .. Len(rnti_order) :
                     /\ \A j \in 1 .. Len(rnti_order) :
                            euclidean_distances[i] <= euclidean_distances[j]
                     /\ \A j \in 1 .. i - 1 :
                            euclidean_distances[j] > euclidean_distances[i]
             IN  Ok(rnti_order[first])

\* feature_distance_matrices: the cells in the order their HashMap iterates
\* in, collected into Result<HashMap>: the first cell that fails ends the call
feature_distance_matrices(cell_traffic, pattern, cell_order, rnti_orders) ==
    LET per_cell == [i \in 1 .. Len(cell_order) |->
                        feature_distance_cell(cell_traffic[cell_order[i]], pattern,
                                              rnti_orders[cell_order[i]])]
        failed == {i \in 1 .. Len(cell_order) : per_cell[i].kind # "Ok"}
    IN  IF failed # {}
        THEN per_cell[CHOOSE i \in failed : \A j \in failed : i <= j]
        ELSE Ok([c \in DOMAIN cell_traffic |->
                    per_cell[CHOOSE i \in 1 .. Len(cell_order) : cell_order[i] = c].value])

find_best_matching_rnti(cell_traffic, pattern, cell_order, rnti_orders) ==
    feature_distance_matrices(cell_traffic, pattern, cell_order, rnti_orders)

\* factors as <<numerator, denominator>>
BASIC_FILTER_MAX_TOTAL_UL_FACTOR == <<200, 1>>
BASIC_FILTER_MIN_TOTAL_UL_FACTOR == <<5, 1000>>
BASIC_FILTER_MAX_UL_PER_DCI == 5000000
BASIC_FILTER_MIN_OCCURENCES_FACTOR == <<5, 100>>

\* (factor * x as f64).round() as u64, for products that are not at a half
mul_round(factor, x) == (2 * factor[1] * x + factor[2]) \div (2 * factor[2])

\* apply_basic_filter: the new cell_traffic and the statistics
apply_basic_filter(cell_traffic, pattern) ==
    LET max_total_ul == mul_round(BASIC_FILTER_MAX_TOTAL_UL_FACTOR, pattern.total_ul_bytes)
        min_total_ul == mul_round(BASIC_FILTER_MIN_TOTAL_UL_FACTOR, pattern.total_ul_bytes)
        min_occurences == mul_round(BASIC_FILTER_MIN_OCCURENCES_FACTOR, pattern.nof_packets)
        f1(c) == {r \in DOMAIN cell_traffic[c].traffic :
                    ~(cell_traffic[c].traffic[r].total_ul_bytes > max_total_ul)}
        f2(c) == {r \in f1(c) : ~(cell_traffic[c].traffic[r].total_ul_bytes < min_total_ul)}
        f3(c) == {r \in f2(c) :
                    ~(Cardinality(DOMAIN cell_traffic[c].traffic[r].traffic) < min_occurences)}
        f4(c) == {r \in f3(c) :
                    \A t \in DOMAIN cell_traffic[c].traffic[r].traffic :
                        ~(cell_traffic[c].traffic[r].traffic[t] > BASIC_FILTER_MAX_UL_PER_DCI)}
        cells == DOMAIN cell_traffic
        to_keep == {c \in cells : f4(c) # {}}
        count(a, b) ==
            SumOver(cells, [c \in cells |-> Cardinality(a[c]) - Cardinality(b[c])])
        all == [c \in cells |-> DOMAIN cell_traffic[c].traffic]
        s1 == [c \in cells |-> f1(c)]
        s2 == [c \in cells |-> f2(c)]
        s3 == [c \in cells |-> f3(c)]
        s4 == [c \in cells |-> f4(c)]
    IN  [cell_traffic |->
            [c \in cells |->
                IF c \in to_keep
                THEN [traffic |-> [r \in f4(c) |-> cell_traffic[c].traffic[r]]]
                ELSE cell_traffic[c]],
         stats |-> [max_total_ul |-> count(all, s1), min_total_ul |-> count(s1, s2),
                    min_occurences |-> count(s2, s3), max_ul_per_dci |-> count(s3, s4)]]

\* the collections tried by SpecMatch: up to three RNTIs in cell 1, each
\* with one of a few UeTraffic maps (timestamp -> ul_bytes), and a second
\* cell that is absent, without RNTIs or has one RNTI
MatchRntis == {10, 11, 12}
MatchTraffic == {<<1, 1>>, (1 :> 1) @@ (3 :> 1), <<2, 0>>, <<1>>, <<1, 1, 1>>}
MatchSecondCell ==
    {<< >>, (2 :> [traffic |-> << >>]),
     (2 :> [traffic |-> (10 :> UeTraffic(<<1, 1>>))]),
     (2 :> [traffic |-> (10 :> UeTraffic(<<1>>))])}
MatchStdVecs == {[i \in 1 .. 8 |-> <<0, 1>>], [i \in 1 .. 8 |-> <<1, 2>>]}
MatchPatterns ==
    {[std_vec |-> sv,
      std_feature_vec |-> generate_standardized_feature_vec(UeTraffic(t), sv).value,
      total_ul_bytes |-> 250, nof_packets |-> 25] :
        sv \in MatchStdVecs, t \in {<<1, 1>>, (1 :> 1) @@ (3 :> 1), <<1, 1, 1>>}}

CellTraffic(assign) ==
    [traffic |-> [r \in {x \in DOMAIN assign : assign[x] # << >>} |-> UeTraffic(assign[r])]]

InitMatch ==
    /\ RingIdle /\ CapIdle /\ LifeIdle /\ DciBusIdle /\ RttIdle /\ NgxIdle /\ AuxIdle
    /\ \E assign \in [MatchRntis -> MatchTraffic \cup {<< >>}], second \in MatchSecondCell :
           tc_cell_traffic = (1 :> CellTraffic(assign)) @@ second
    /\ tc_pattern \in MatchPatterns
    /\ basic_filter_statistics = None
    /\ match_result = NotCalled

FindBestMatchingRnti ==
    /\ match_result.kind = "not_called"
    /\ \E cell_order \in Orders(DOMAIN tc_cell_traffic) :
         \E rnti_orders \in
                {f \in [DOMAIN tc_cell_traffic ->
                            UNION {Orders(DOMAIN tc_cell_traffic[c].traffic) :
                                      c \in DOMAIN tc_cell_traffic}] :
                    \A c \in DOMAIN tc_cell_traffic :
                        f[c] \in Orders(DOMAIN tc_cell_traffic[c].traffic)} :
            match_result' =
                find_best_matching_rnti(tc_cell_traffic, tc_pattern, cell_order, rnti_orders)
    /\ UNCHANGED <<tc_cell_traffic, tc_pattern, basic_filter_statistics, rttVars, ngxVars, auxVars,
                   ringVars, capVars, lifeVars, dciBusVars>>

NextMatch == FindBestMatchingRnti

SpecMatch == InitMatch /\ [][NextMatch]_vars

\* the collections tried by SpecFilter: two cells with up to two RNTIs each
FilterRntis == {10, 11}
FilterTraffic ==
    {<<1>>, <<100, 100, 100>>, <<5000001>>, <<2000000, 2000000, 2000000>>,
     <<20000, 20000, 20000>>, <<50, 50, 50, 50>>}
FilterPatterns ==
    {[std_vec |-> [i \in 1 .. 8 |-> <<0, 1>>], std_feature_vec |-> [i \in 1 .. 8 |-> 0],
      total_ul_bytes |-> t, nof_packets |-> n] : t \in {250, 30000}, n \in {25, 60}}

InitFilter ==
    /\ RingIdle /\ CapIdle /\ LifeIdle /\ DciBusIdle /\ RttIdle /\ NgxIdle /\ AuxIdle
    /\ \E a1 \in [FilterRntis -> FilterTraffic \cup {<< >>}],
          a2 \in [FilterRntis -> FilterTraffic \cup {<< >>}] :
           tc_cell_traffic = (1 :> CellTraffic(a1)) @@ (2 :> CellTraffic(a2))
    /\ tc_pattern \in FilterPatterns
    /\ basic_filter_statistics = None
    /\ match_result = NotCalled

ApplyBasicFilter ==
    /\ basic_filter_statistics.kind = "None"
    /\ LET r == apply_basic_filter(tc_cell_traffic, tc_pattern)
       IN  /\ tc_cell_traffic' = r.cell_traffic
           /\ basic_filter_statistics' = Some(r.stats)
    /\ UNCHANGED <<tc_pattern, match_result, rttVars, ngxVars, auxVars, ringVars, capVars, lifeVars,
                   dciBusVars>>

NextFilter == ApplyBasicFilter

SpecFilter == InitFilter /\ [][NextFilter]_vars

(***************************************************************************)
(* C13 as claimed: if exactly one RNTI of a cell has a standardized        *)
(* feature vector equal to the pattern vector, find_best_matching_rnti     *)
(* returns that RNTI for the cell, whatever other RNTIs the collection     *)
(* holds.                                                                  *)
(***************************************************************************)
EqualsPattern(c, r) ==
    LET v == generate_standardized_feature_vec(tc_cell_traffic[c].traffic[r],
                                               tc_pattern.std_vec)
    IN  v.kind = "Ok" /\ v.value = tc_pattern.std_feature_vec

ExactMatches(c) == {r \in DOMAIN tc_cell_traffic[c].traffic : EqualsPattern(c, r)}

C13_UniqueMatchWins ==
    match_result.kind # "not_called" =>
        \A c \in DOMAIN tc_cell_traffic :
            Cardinality(ExactMatches(c)) = 1 =>
                /\ match_result.kind = "Ok"
                /\ match_result.value[c] \in ExactMatches(c)

\* the same where every RNTI of the collection has a feature vector and no
\* cell is without RNTIs
AllHaveVectors ==
    \A c \in DOMAIN tc_cell_traffic :
        /\ DOMAIN tc_cell_traffic[c].traffic # {}
        /\ \A r \in DOMAIN tc_cell_traffic[c].traffic :
               generate_standardized_feature_vec(tc_cell_traffic[c].traffic[r],
                                                 tc_pattern.std_vec).kind = "Ok"

C13_UniqueMatchWinsWithVectors ==
    (match_result.kind # "not_called" /\ AllHaveVectors) => C13_UniqueMatchWins

(***************************************************************************)
(* C14 as claimed: for each cell the RNTI returned has the minimum         *)
(* weighted Euclidean distance to the pattern vector, and of two RNTIs     *)
(* with the same minimum distance the one with the lower value is          *)
(* returned.                                                               *)
(***************************************************************************)
Distance(c, r) ==
    weighted_squared_diff(tc_pattern.std_feature_vec,
                          generate_standardized_feature_vec(tc_cell_traffic[c].traffic[r],
                                                            tc_pattern.std_vec).value,
                          MATCHING_WEIGHTINGS)

Nearest(c) ==
    {r \in DOMAIN tc_cell_traffic[c].traffic :
        \A q \in DOMAIN tc_cell_traffic[c].traffic : Distance(c, r) <= Distance(c, q)}

C14_MinimumDistance ==
    match_result.kind = "Ok" =>
        \A c \in DOMAIN tc_cell_traffic : match_result.value[c] \in Nearest(c)

C14_MinimumDistanceLowerRnti ==
    match_result.kind = "Ok" =>
        \A c \in DOMAIN tc_cell_traffic :
            /\ match_result.value[c] \in Nearest(c)
            /\ \A r \in Nearest(c) : match_result.value[c] <= r

(***************************************************************************)
(* C15 as claimed: after apply_basic_filter no cell retains an RNTI with   *)
(* (a) total_ul_bytes above 200 times the pattern's total UL bytes, (b)    *)
(* total_ul_bytes below 0.005 times it, (c) a DCI of more than 5,000,000   *)
(* UL bytes, or (d) fewer DCIs than 0.05 times the pattern's packet count, *)
(* also where every RNTI of a cell meets one of these.                     *)
(***************************************************************************)
Discardable(ue) ==
    \/ ue.total_ul_bytes > 200 * tc_pattern.total_ul_bytes
    \/ 200 * ue.total_ul_bytes < tc_pattern.total_ul_bytes
    \/ \E t \in DOMAIN ue.traffic : ue.traffic[t] > 5000000
    \/ 20 * Cardinality(DOMAIN ue.traffic) < tc_pattern.nof_packets

C15_FilterDiscards ==
    basic_filter_statistics.kind = "Some" =>
        \A c \in DOMAIN tc_cell_traffic :
            \A r \in DOMAIN tc_cell_traffic[c].traffic :
                ~Discardable(tc_cell_traffic[c].traffic[r])

\* the four conditions with the thresholds as the code rounds them, in the
\* cells where some RNTI passes
DiscardedByCode(ue) ==
    \/ ue.total_ul_bytes
           > mul_round(BASIC_FILTER_MAX_TOTAL_UL_FACTOR, tc_pattern.total_ul_bytes)
    \/ ue.total_ul_bytes
           < mul_round(BASIC_FILTER_MIN_TOTAL_UL_FACTOR, tc_pattern.total_ul_bytes)
    \/ \E t \in DOMAIN ue.traffic : ue.traffic[t] > BASIC_FILTER_MAX_UL_PER_DCI
    \/ Cardinality(DOMAIN ue.traffic)
           < mul_round(BASIC_FILTER_MIN_OCCURENCES_FACTOR, tc_pattern.nof_packets)

C15_RemovedWhereSomeRemain ==
    basic_filter_statistics.kind = "Some" =>
        \A c \in DOMAIN tc_cell_traffic :
            (\E r \in DOMAIN tc_cell_traffic[c].traffic :
                ~DiscardedByCode(tc_cell_traffic[c].traffic[r]))
                => \A r \in DOMAIN tc_cell_traffic[c].traffic :
                       ~DiscardedByCode(tc_cell_traffic[c].traffic[r])

(***************************************************************************)
(* Lifecycle properties                                                    *)
(***************************************************************************)
Last(s) == s[Len(s)]
Count(s, x) == Cardinality({i \in 1 .. Len(s) : s[i] = x})

(***************************************************************************)
(* C1: whenever Running is on the app-state bus, the supervisor has taken  *)
(* a Running status from the channel of each of the five workers.          *)
(***************************************************************************)
C1_RunningAfterAllWorkers ==
    "Running" \in SeqRange(app_bus) => running_from = Workers

C1_Witness ==
    /\ app_bus = <<"Running">>
    /\ running_from = Workers
    /\ main_pc = "loop"

(***************************************************************************)
(* C2: the first status a worker sends is Running and it sends it once;    *)
(* a worker is in its loop, and its sub-thread exists, only after its      *)
(* reader delivered the Running broadcast of the supervisor.               *)
(***************************************************************************)
C2_RunningFirstThenGate ==
    \A w \in Workers :
        /\ sent[w] # << >> => sent[w][1] = "Running"
        /\ Count(sent[w], "Running") <= 1
        /\ pc[w] # "start" => Count(sent[w], "Running") = 1
        /\ pc[w] = "loop" => rx_app[w] >= 1 /\ app_bus[1] = "Running"
        /\ (w = "ngcontrol" /\ dci_state # "none") => rx_app[w] >= 1
        /\ (w = "rntimatcher" /\ gen_state # "none") => rx_app[w] >= 1

C2_Witness ==
    \A w \in Workers : pc[w] = "loop" /\ sent[w] = <<"Running">> /\ rx_app[w] = 1

(***************************************************************************)
(* C3 as claimed: on every termination path a worker sends Stopped exactly *)
(* once, and Stopped is the last status it sends.                          *)
(***************************************************************************)
C3_StoppedOnceAndLast ==
    \A w \in Workers :
        /\ \A i \in 1 .. Len(sent[w]) : sent[w][i] = "Stopped" => i = Len(sent[w])
        /\ pc[w] = "done" => Count(sent[w], "Stopped") = 1

(***************************************************************************)
(* C4 as claimed: once SIGINT has been raised while the supervisor is      *)
(* Running (Running is on the app-state bus), the supervisor leaves its    *)
(* main loop only after it went through NotifyStop and broadcast Stopped,  *)
(* with every worker thread finished.                                      *)
(***************************************************************************)
C4_SigintShutdown ==
    (sigint /\ "Running" \in SeqRange(app_bus) /\ main_pc \in {"returned", "exited"})
        => /\ "Stopped" \in SeqRange(app_bus)
           /\ main_result = "ok"
           /\ \A w \in Workers : pc[w] = "done"

(***************************************************************************)
(* C5 as claimed: when the supervisor, while Running, takes a worker's     *)
(* Stopped from the status channel it reads, or finds that channel         *)
(* disconnected, it stays in its main loop and moves to NotifyStop (and    *)
(* from there broadcasts Stopped).                                         *)
(***************************************************************************)
C5_ObservesWorkerStop ==
    /\ main_pc = "match"
    /\ app_state = "Running"
    /\ \/ /\ chan["ngcontrol"] # << >>
          /\ Head(chan["ngcontrol"]) = "Stopped"
          /\ chan'["ngcontrol"] = Tail(chan["ngcontrol"])
       \/ /\ chan["ngcontrol"] = << >>
          /\ pc["ngcontrol"] = "done"
          /\ main_pc' # main_pc

C5_WorkerStopNotifies ==
    [][C5_ObservesWorkerStop =>
          (main_pc' = "loop" /\ app_state' \in {"NotifyStop", "Stopped"})]_vars

(***************************************************************************)
(* C6: every CellDci frame parsed in ListenForDci is on the DCI bus or     *)
(* held by the blocking broadcast, in the order parsed; every subscriber   *)
(* has received the frames 1, 2, ... in order and each once, and a live    *)
(* subscriber still has every frame it has not received ahead of it.       *)
(***************************************************************************)
Held == IF fetcher_blocked = 0 THEN << >> ELSE <<fetcher_blocked>>

C6_DeliveredOnceInOrder ==
    /\ tx_dci \o Held = [i \in 1 .. nof_parsed |-> i]
    /\ \A r \in Subscribers :
          /\ dci_received[r] = [i \in 1 .. Len(dci_received[r]) |-> i]
          /\ rx_dci_alive[r] =>
                dci_received[r] \o SubSeq(tx_dci, rx_dci[r] + 1, Len(tx_dci)) \o Held
                    = [i \in 1 .. nof_parsed |-> i]

C6_Witness ==
    /\ nof_bus_full >= 1
    /\ fetcher_blocked = 0
    /\ nof_parsed = MaxFrames
    /\ \A r \in Subscribers :
          rx_dci_alive[r] /\ dci_received[r] = [i \in 1 .. MaxFrames |-> i]

(***************************************************************************)
(* C7 as claimed: when NgControl has sent Stopped and finished, the        *)
(* fetcher thread has ended and no sniffer process it started is alive.    *)
(***************************************************************************)
C7_NoSnifferLeft ==
    (pc["ngcontrol"] = "done" /\ Last(sent["ngcontrol"]) = "Stopped")
        => (dci_state \in {"none", "done"} /\ ~sniffer_alive)

(***************************************************************************)
(* C16 as claimed: a UDP frame with an unknown preamble or a wrong length  *)
(* that the fetcher receives in ListenForDci is skipped: nothing is        *)
(* broadcast for it and the fetcher thread stays alive in ListenForDci, so *)
(* that later valid CellDci frames are still broadcast.                    *)
(***************************************************************************)
FrameContentSize(preamble) ==
    CASE preamble = "Dci" -> NGSCOPE_STRUCT_SIZE_DCI
      [] preamble = "CellDci" -> NGSCOPE_STRUCT_SIZE_CELL_DCI
      [] preamble = "Config" -> NGSCOPE_STRUCT_SIZE_CONFIG

Malformed(frame) ==
    /\ frame # NoFrame
    /\ \/ frame.preamble = "unknown"
       \/ /\ frame.preamble \in {"Dci", "CellDci", "Config"}
          /\ frame.len # NGSCOPE_MESSAGE_CONTENT_POSITION + FrameContentSize(frame.preamble)

C16_MalformedSkipped ==
    [][Malformed(last_frame')
          => (fetcher_alive' /\ tx_dci' = tx_dci /\ fetcher_blocked' = 0)]_vars

\* the same for the frames Message::from_bytes returns an error for
C16_ErrSkipped ==
    [][(last_frame' # NoFrame /\ Message_from_bytes(last_frame').kind = "Err")
          => (fetcher_alive' /\ tx_dci' = tx_dci /\ fetcher_blocked' = 0)]_vars

(***************************************************************************)
(* SpecNg: the NgControl worker and its DCI fetcher thread in detail       *)
(* (ngscope_controller.rs 116-343), started where the supervisor is        *)
(* Running and the fetcher thread has just been deployed.  The cell source *)
(* and the supervisor are the environment: cell infos arrive, Stopped may  *)
(* be broadcast.                                                           *)
(***************************************************************************)
MaxNgUpdates == 2
MaxSpawnFailures == 4

\* CellInfo.cells as the sequence of the cells' frequencies
NgCellInfos == {<< >>, <<1>>, <<2, 1>>}

NgStart ==
    /\ sigint = FALSE
    /\ main_pc = "loop"
    /\ main_result = "none"
    /\ app_state = "Running"
    /\ waiting_for = {}
    /\ running_from = Workers
    /\ app_bus = <<"Running">>
    /\ rx_app = [w \in Workers |-> 1]
    /\ chan = [w \in Workers |-> << >>]
    /\ sent = [w \in Workers |-> <<"Running">>]
    /\ pc = [w \in Workers |-> "loop"]
    /\ ngcontrol_state = "CheckingCellInfo"
    /\ ng_process_option = "None"
    /\ sniffer_alive = FALSE
    /\ dci_state = "init"
    /\ to_fetcher = << >>
    /\ from_fetcher = << >>
    /\ last_cell_info = 0
    /\ nof_cell_updates = 0
    /\ cell_q = << >>
    /\ gen_state = "run"
    /\ logger_state = "Running"

InitNg ==
    RingIdle /\ CapIdle /\ DciBusIdle /\ RttIdle /\ MatchIdle /\ NgxIdle /\ AuxIdle /\ NgStart

\* cell_source: a changed cell info is broadcast
NgEnv_cell_info ==
    /\ pc["source"] = "loop"
    /\ nof_cell_updates < MaxNgUpdates
    /\ \E cell_info \in NgCellInfos : cell_q' = Append(cell_q, cell_info)
    /\ nof_cell_updates' = nof_cell_updates + 1
    /\ UNCHANGED <<mainVars, sigint, busVars, chanVars, pc, ngVars, dciVars, last_cell_info,
                   genVars, logger_state, ringVars, capVars, dciBusVars, rttVars, matchVars,
                   ngxVars, auxVars>>

\* main.rs 237-255: a loop iteration of main that finds the SIGINT flag set,
\* the precheck and the NotifyStop arm
NgEnv_stop ==
    /\ main_pc = "loop"
    /\ app_state = "Running"
    /\ sigint' = TRUE
    /\ app_state' = "Stopped"
    /\ app_bus' = Append(app_bus, "Stopped")
    /\ UNCHANGED <<main_pc, main_result, waiting_for, running_from, rx_app, chanVars, pc,
                   ngVars, dciVars, srcVars, genVars, logger_state, ringVars, capVars,
                   dciBusVars, rttVars, matchVars, ngxVars, auxVars>>

\* what one pass through the match of run leaves behind
NgxStep ==
    [exit |-> FALSE, state |-> ngcontrol_state, process |-> ng_process_option,
     to_f |-> to_fetcher, from_f |-> from_fetcher, cells |-> cell_q, status |-> << >>,
     conf |-> ng_conf, sniffers |-> sniffers, kills |-> nof_kill,
     failed |-> nof_spawn_failed, update |-> last_update, hs |-> hs]

NgxExit == [NgxStep EXCEPT !.exit = TRUE]

\* a configuration that takes the frequency of the last cell
new_conf_mut(cells) == cells[Len(cells)]

\* new_conf.rf_config0.rf_freq = cell_info.cells.first().unwrap().frequency
new_conf(cells) == cells[1]

\* a StartNgScope arm that spawns without stopping the child it holds
stopped_previous_mut(step) == step

\* if let Some(ref mut process) = ng_process_option { stop_ngscope(process)?; }
\* the child held is the one started last, the last of sniffers while it is
\* alive; kill of a child that was killed before and not waited for succeeds
stopped_previous(step) ==
    IF step.process = "Some"
    THEN [step EXCEPT !.sniffers = IF @ = << >> THEN @ ELSE SubSeq(@, 1, Len(@) - 1),
                      !.kills = @ + 1]
    ELSE step

\* handle_cell_update with the cells of the update
ngx_handle_cell_update ==
    IF cell_q # << >>
    THEN LET cells == Head(cell_q)
         IN  IF cells = << >>
             THEN {[NgxStep EXCEPT !.cells = Tail(cell_q), !.update = cells,
                                   !.state = "StopNgScope"]}
             ELSE {[NgxStep EXCEPT !.cells = Tail(cell_q), !.update = cells,
                                   !.conf = new_conf(cells), !.state = "StartNgScope"]}
    ELSE IF pc["source"] = "done" THEN {NgxExit} ELSE {NgxStep}

\* the StartNgScope arm: the previous child is stopped, then
\* handle_start_ngscope spawns the sniffer or fails
ngx_start_ngscope ==
    LET stopped == stopped_previous(NgxStep)
    IN  {[stopped EXCEPT !.state = SleepMs("TriggerListenDci"),
                         !.process = IF ng_start_process THEN "Some" ELSE "None",
                         !.sniffers = IF ng_start_process THEN Append(@, ng_conf) ELSE @,
                         !.failed = 0]}
        \cup (IF nof_spawn_failed < MaxSpawnFailures
              THEN {[stopped EXCEPT !.state = SleepMs("StartNgScope"), !.failed = @ + 1]}
              ELSE {})

\* the arms of the match in run, lines 124-182
ngx_match ==
    IF ngcontrol_state = "CheckingCellInfo" THEN ngx_handle_cell_update
    ELSE IF ngcontrol_state = "TriggerListenDci"
    THEN IF dci_state = "done" THEN {NgxExit}
         ELSE {[NgxStep EXCEPT !.to_f = Append(to_fetcher, "SendInitial"),
                               !.state = "WaitForTriggerResponse",
                               !.hs = [triggers |-> hs.triggers + 1, starts |-> 0,
                                       valid |-> 0, auths |-> 0]]}
    ELSE IF ngcontrol_state = "WaitForTriggerResponse"
    THEN IF from_fetcher # << >>
         THEN {[NgxStep EXCEPT !.from_f = Tail(from_fetcher),
                               !.state = IF Head(from_fetcher) = "SuccessfulAuth"
                                         THEN "SuccessfulTriggerResponse"
                                         ELSE SleepMs("WaitForTriggerResponse")]}
         ELSE IF dci_state = "done" THEN {NgxExit}
         ELSE {[NgxStep EXCEPT !.state = SleepMs("WaitForTriggerResponse")]}
    ELSE IF ngcontrol_state = "SuccessfulTriggerResponse"
    THEN {[NgxStep EXCEPT !.status = <<"SuccessfulTriggerResponse">>,
                          !.exit = ~ReceiversAlive,
                          !.state = IF ReceiversAlive THEN "CheckingCellInfo"
                                    ELSE ngcontrol_state]}
    ELSE IF ngcontrol_state = SleepMs("TriggerListenDci")
    THEN {[NgxStep EXCEPT !.state = "TriggerListenDci"]}
    ELSE IF ngcontrol_state = SleepMs("WaitForTriggerResponse")
    THEN {[NgxStep EXCEPT !.state = "WaitForTriggerResponse"]}
    ELSE IF ngcontrol_state = SleepMs("StartNgScope")
    THEN {[NgxStep EXCEPT !.state = "StartNgScope"]}
    ELSE IF ngcontrol_state = "StartNgScope" THEN ngx_start_ngscope
    ELSE \* StopNgScope
         {[stopped_previous(NgxStep) EXCEPT !.state = "CheckingCellInfo"]}

\* one iteration of the loop of run; on a break or an error, the return
\* from run and finish up to its join
NgRun_loop ==
    /\ pc["ngcontrol"] = "loop"
    /\ ThreadsAlive
    /\ rx_app' = rx_app_after("ngcontrol")
    /\ UNCHANGED <<app_bus, dci_state>>
    /\ \E step \in IF check_not_stopped(app_try_recv("ngcontrol")) = "Err"
                   THEN {NgxExit} ELSE ngx_match :
          LET msgs == IF step.exit THEN step.status \o finish_msgs("ngcontrol")
                      ELSE step.status
              queue == IF step.exit THEN stop_to_fetcher(step.to_f) ELSE step.to_f
          IN  /\ can_send("ngcontrol", Len(msgs))
              /\ Len(queue) <= CHANNEL_SYNC_SIZE
              /\ sent' = sent_after("ngcontrol", msgs)
              /\ chan' = chan_after("ngcontrol", msgs)
              /\ to_fetcher' = queue
              /\ from_fetcher' = step.from_f
              /\ cell_q' = step.cells
              /\ ngcontrol_state' = step.state
              /\ ng_process_option' = step.process
              /\ sniffer_alive' = (step.sniffers # << >>)
              /\ ng_conf' = step.conf
              /\ sniffers' = step.sniffers
              /\ nof_kill' = step.kills
              /\ nof_spawn_failed' = step.failed
              /\ last_update' = step.update
              /\ hs' = step.hs
              /\ pc' = [pc EXCEPT !["ngcontrol"] =
                           IF step.exit THEN after_finish("ngcontrol") ELSE "loop"]
    /\ UNCHANGED <<mainVars, sigint, last_cell_info, nof_cell_updates, genVars, logger_state,
                   ringVars, capVars, dciBusVars, rttVars, matchVars, auxVars>>

\* LocalDciState::WaitForServerAuth(successful_auths)
WaitForServerAuth(successful_auths) ==
    IF successful_auths = 0 THEN "WaitForServerAuth0" ELSE "WaitForServerAuth1"

successful_auths_of(state) == IF state = "WaitForServerAuth0" THEN 0 ELSE 1

\* an authentication that is satisfied with the first valid frame
server_auth_next_mut(successful_auths) == "SuccessfulAuth"

\* the Some(_) arm of WaitForServerAuth
server_auth_next(successful_auths) ==
    IF successful_auths >= 1 THEN "SuccessfulAuth"
    ELSE WaitForServerAuth(successful_auths + 1)

\* ngscope_extract_packet: the type of the preamble, whatever follows it
ngscope_extract_packet(frame) ==
    IF frame.len < NGSCOPE_MESSAGE_TYPE_SIZE THEN Err
    ELSE IF MessageType_from_bytes(frame.preamble).kind = "None" THEN Err
    ELSE Ok(frame.preamble)

\* ngscope_validate_server_check: Ok(Some(())), Ok(None) or Err
ngscope_validate_server_check(frame) ==
    LET msg_type == IF frame = NoFrame THEN Err ELSE ngscope_extract_packet(frame)
    IN  IF msg_type.kind = "Ok"
        THEN IF msg_type.value = "Exit" THEN Err ELSE Ok("Some")
        ELSE Ok("None")

\* run_dci_fetcher, lines 298-341: one loop iteration
NgFetcher_loop ==
    /\ dci_state \notin {"none", "init", "done"}
    /\ ThreadsAlive
    /\ LET has_msg == to_fetcher # << >>
           state == IF has_msg THEN Head(to_fetcher) ELSE dci_state
       IN  /\ to_fetcher' = IF has_msg THEN Tail(to_fetcher) ELSE to_fetcher
           /\ IF ~has_msg /\ ~fetcher_senders_alive
              THEN dci_state' = "done" /\ UNCHANGED <<from_fetcher, hs>>
              ELSE \/ /\ state = "Stop"
                      /\ dci_state' = "done"
                      /\ UNCHANGED <<from_fetcher, hs>>
                   \/ /\ state = "SendInitial"
                      \* ngscope_validate_server_send_initial: send_to of the Start frame
                      /\ \E start_sent \in BOOLEAN :
                            IF start_sent
                            THEN /\ dci_state' = WaitForServerAuth(0)
                                 /\ hs' = [hs EXCEPT !.starts = @ + 1, !.valid = 0]
                            ELSE /\ dci_state' = "SendInitial"
                                 /\ UNCHANGED hs
                      /\ UNCHANGED from_fetcher
                   \/ /\ state \in {"WaitForServerAuth0", "WaitForServerAuth1"}
                      /\ \E frame \in Frames \cup {NoFrame} :
                            LET check == ngscope_validate_server_check(frame)
                            IN  IF check.kind = "Err"
                                THEN dci_state' = "done" /\ UNCHANGED hs
                                ELSE IF check.value = "None"
                                THEN dci_state' = state /\ UNCHANGED hs
                                ELSE /\ dci_state' =
                                            server_auth_next(successful_auths_of(state))
                                     /\ hs' = [hs EXCEPT !.valid = @ + 1]
                      /\ UNCHANGED from_fetcher
                   \/ /\ state = "SuccessfulAuth"
                      /\ IF fetcher_receiver_alive
                         THEN /\ Len(from_fetcher) < CHANNEL_SYNC_SIZE
                              /\ from_fetcher' = Append(from_fetcher, "SuccessfulAuth")
                              /\ hs' = [hs EXCEPT !.auths = @ + 1]
                              /\ dci_state' = "ListenForDci"
                         ELSE dci_state' = "done" /\ UNCHANGED <<from_fetcher, hs>>
                   \/ /\ state = "ListenForDci"
                      \* check_ngscope_message: a panic ends the thread
                      /\ \E frame \in Frames \cup {NoFrame} :
                            dci_state' =
                                IF ngscope_recv_single_message(frame).kind = "panic"
                                THEN "done" ELSE "ListenForDci"
                      /\ UNCHANGED <<from_fetcher, hs>>
    /\ UNCHANGED <<mainVars, sigint, busVars, chanVars, pc, ngVars, srcVars, genVars,
                   logger_state, ringVars, capVars, dciBusVars, rttVars, matchVars, auxVars,
                   ng_conf,
                   sniffers, nof_kill, nof_spawn_failed, last_update>>

NextNg ==
    \/ NgEnv_cell_info
    \/ NgEnv_stop
    \/ NgRun_loop
    \/ NgControl_join
    \/ Fetcher_init
    \/ NgFetcher_loop

SpecNg == InitNg /\ [][NextNg]_vars

\* both threads keep running: every thread::sleep returns
SpecNgFair ==
    /\ SpecNg
    /\ WF_vars(NgRun_loop)
    /\ WF_vars(NgControl_join)
    /\ WF_vars(Fetcher_init)
    /\ WF_vars(NgFetcher_loop)

(***************************************************************************)
(* C17: after the controller triggers the handshake the fetcher sends one  *)
(* Start frame, reports SuccessfulAuth to the controller exactly once for  *)
(* that trigger and only after two valid frames have been received since   *)
(* the Start was sent, then is in ListenForDci; the controller reports     *)
(* SuccessfulTriggerResponse to the supervisor only after it received that *)
(* SuccessfulAuth.                                                         *)
(***************************************************************************)
C17_Handshake ==
    /\ hs.starts <= 1
    /\ hs.auths <= 1
    /\ Len(from_fetcher) <= hs.auths
    /\ hs.auths = 1 => (hs.starts = 1 /\ hs.valid = 2)
    /\ (hs.auths = 1 /\ to_fetcher = << >>) => dci_state \in {"ListenForDci", "done"}
    /\ ngcontrol_state = "SuccessfulTriggerResponse" => (hs.auths = 1 /\ from_fetcher = << >>)
    /\ Count(sent["ngcontrol"], "SuccessfulTriggerResponse") <= hs.triggers
    /\ Count(sent["ngcontrol"], "SuccessfulTriggerResponse") = hs.triggers
          => (hs.triggers = 0 \/ (hs.auths = 1 /\ from_fetcher = << >>))

C17_Witness ==
    /\ hs.triggers = 2
    /\ hs.auths = 1
    /\ Count(sent["ngcontrol"], "SuccessfulTriggerResponse") = 2
    /\ dci_state = "ListenForDci"

(***************************************************************************)
(* C18: for every cell-info update with at least one cell that NgControl   *)
(* takes, the sniffer is (re)started with rf_freq equal to the frequency   *)
(* of the first cell of that update, the sniffer started before being      *)
(* killed first; an update without cells stops the sniffer and leads back  *)
(* to CheckingCellInfo without a new sniffer.                              *)
(***************************************************************************)
RestartPending == {"StartNgScope", SleepMs("StartNgScope"), "StopNgScope"}

C18_WitnessStop ==
    /\ last_update = << >>
    /\ sniffers = << >>
    /\ nof_kill >= 1
    /\ ngcontrol_state = "CheckingCellInfo"

(***************************************************************************)
(* C19 as claimed: when the spawn of the sniffer fails NgControl retries   *)
(* StartNgScope with the same configuration after the backoff, and when    *)
(* the spawn has failed three times the worker emits Stopped and exits     *)
(* instead of retrying.                                                    *)
(***************************************************************************)
C19_SpawnRetryThenStop ==
    (pc["ngcontrol"] = "loop" /\ ngcontrol_state = SleepMs("StartNgScope")) =>
        /\ ng_conf = last_update[1]
        /\ nof_spawn_failed < 3

\* the retry itself
C19_RetrySameConfig ==
    (pc["ngcontrol"] = "loop" /\ ngcontrol_state = SleepMs("StartNgScope")) =>
        /\ ng_conf = last_update[1]
        /\ nof_spawn_failed >= 1
        /\ sniffers = << >>

(***************************************************************************)
(* C20 as claimed: if the fetcher thread terminates on its own, the        *)
(* NgControl worker eventually leaves its loop, emits Stopped and exits,   *)
(* whatever state the controller is in at that moment.                     *)
(***************************************************************************)
C20_FetcherExitStopsWorker ==
    (dci_state = "done" /\ pc["ngcontrol"] = "loop")
        ~> (pc["ngcontrol"] = "done" /\ Last(sent["ngcontrol"]) = "Stopped")

\* the same, from the states in which the controller is waiting for a
\* response of the fetcher that has not been sent
C20_WhileWaiting ==
    (dci_state = "done" /\ pc["ngcontrol"] = "loop"
        /\ from_fetcher = << >>
        /\ ngcontrol_state \in {"TriggerListenDci", SleepMs("TriggerListenDci"),
                                "WaitForTriggerResponse",
                                SleepMs("WaitForTriggerResponse")})
        ~> (pc["ngcontrol"] = "done" /\ Last(sent["ngcontrol"]) = "Stopped")

(***************************************************************************)
(* SpecSrc: the loop of the cell source with the cells of each CellInfo    *)
(* (cell_source.rs 84-115).  SpecEq: CellInfo::equal_content on its own    *)
(* (cell_info.rs 202-214).                                                 *)
(***************************************************************************)
MaxBroadcasts == 2
MaxCells == 2
MaxEqCells == 3

\* SingleCell: the fields equal_content reads, and cell_id, which it skips
SingleCell(cell_id, frequency, cell_type) ==
    [cell_id |-> cell_id, frequency |-> frequency, cell_type |-> cell_type]

SingleCells ==
    {SingleCell(7, 1, "LTE"), SingleCell(8, 1, "LTE"), SingleCell(7, 2, "LTE"),
     SingleCell(7, 1, "NR")}

\* CellInfo.cells with at most n cells
CellLists(n) == UNION {[1 .. k -> SingleCells] : k \in 0 .. n}

\* CellInfo::equal_content
equal_content(info_a, info_b) ==
    IF Len(info_a) # Len(info_b) THEN FALSE
    ELSE \A i \in 1 .. Len(info_a) : \E j \in 1 .. Len(info_b) :
            /\ info_a[i].frequency = info_b[j].frequency
            /\ info_a[i].cell_type = info_b[j].cell_type

\* a source that compares the CellInfos field by field
is_new_cell_info_mut(cell_info, last) == cell_info # last

\* cell_source.rs 96: !CellInfo::equal_content(&cell_info, &last_cell_info)
is_new_cell_info(cell_info, last) == ~equal_content(cell_info, last)

InitSrc ==
    /\ CsOthersIdle
    /\ cs_last_cell_info = << >>
    /\ cs_broadcast = << >>
    /\ cs_retrieved = NotCalled

\* one iteration of the loop of run that passes the precheck:
\* retrieve_cell_info returns a CellInfo or an error
Source_retrieve ==
    /\ Len(cs_broadcast) < MaxBroadcasts
    /\ \E retrieved \in {Err} \cup {Ok(cells) : cells \in CellLists(MaxCells)} :
          /\ cs_retrieved' = retrieved
          /\ IF retrieved.kind = "Ok"
             THEN IF is_new_cell_info(retrieved.value, cs_last_cell_info)
                  THEN /\ cs_broadcast' = Append(cs_broadcast, retrieved.value)
                       /\ cs_last_cell_info' = retrieved.value
                  ELSE UNCHANGED <<cs_broadcast, cs_last_cell_info>>
             ELSE UNCHANGED <<cs_broadcast, cs_last_cell_info>>
    /\ UNCHANGED notCs

NextSrc == Source_retrieve

SpecSrc == InitSrc /\ [][NextSrc]_vars

InitEq ==
    /\ EqOthersIdle
    /\ eq_a \in CellLists(MaxEqCells)
    /\ eq_b \in CellLists(MaxEqCells)
    /\ eq_result = NotCalled

EqualContent ==
    /\ eq_result.kind = "not_called"
    /\ eq_result' = Ok(equal_content(eq_a, eq_b))
    /\ UNCHANGED <<eq_a, eq_b>>
    /\ UNCHANGED notEq

NextEq == EqualContent

SpecEq == InitEq /\ [][NextEq]_vars

(***************************************************************************)
(* C21: the cell source broadcasts a polled CellInfo if and only if        *)
(* equal_content(new, last broadcast) is false, the last broadcast being   *)
(* the empty cell set at first, so no CellInfo broadcast is equal_content  *)
(* to the one broadcast before it; a failed poll broadcasts nothing and    *)
(* leaves the remembered CellInfo as it is.                                *)
(***************************************************************************)
LastBroadcast == IF cs_broadcast = << >> THEN << >> ELSE cs_broadcast[Len(cs_broadcast)]

C21_NoEqualNeighbours ==
    /\ cs_last_cell_info = LastBroadcast
    /\ cs_broadcast # << >> => ~equal_content(cs_broadcast[1], << >>)
    /\ \A i \in 1 .. Len(cs_broadcast) - 1 :
          ~equal_content(cs_broadcast[i + 1], cs_broadcast[i])

C21_PollStep ==
    IF cs_retrieved'.kind = "Ok" /\ ~equal_content(cs_retrieved'.value, cs_last_cell_info)
    THEN /\ cs_broadcast' = Append(cs_broadcast, cs_retrieved'.value)
         /\ cs_last_cell_info' = cs_retrieved'.value
    ELSE UNCHANGED <<cs_broadcast, cs_last_cell_info>>

C21_BroadcastIffChanged == []C21_NoEqualNeighbours /\ [][C21_PollStep]_vars

C21_Witness ==
    /\ Len(cs_broadcast) = 2
    /\ Len(cs_broadcast[1]) = 2
    /\ Len(cs_broadcast[2]) = 2

C21_WitnessFailedPoll ==
    /\ Len(cs_broadcast) = 1
    /\ cs_retrieved.kind = "Err"

C21_WitnessSuppressed ==
    /\ Len(cs_broadcast) = 1
    /\ cs_retrieved.kind = "Ok"
    /\ cs_retrieved.value # cs_last_cell_info

(***************************************************************************)
(* C29 as claimed: equal_content(a, b) is true if and only if the cells of *)
(* a and b can be put in one-to-one correspondence on                      *)
(* (frequency, cell_type); it is symmetric and false for two lists of the  *)
(* same length whose (frequency, cell_type) multisets differ.              *)
(***************************************************************************)
SameKey(cell_a, cell_b) ==
    cell_a.frequency = cell_b.frequency /\ cell_a.cell_type = cell_b.cell_type

NofKey(cells, cell) == Cardinality({i \in 1 .. Len(cells) : SameKey(cells[i], cell)})

OneToOne(cells_a, cells_b) ==
    /\ Len(cells_a) = Len(cells_b)
    /\ \A cell \in SingleCells : NofKey(cells_a, cell) = NofKey(cells_b, cell)

C29_OneToOne ==
    eq_result.kind = "Ok" =>
        /\ eq_result.value = OneToOne(eq_a, eq_b)
        /\ eq_result.value = equal_content(eq_b, eq_a)

\* where no two cells of a list share (frequency, cell_type)
DistinctKeys(cells) ==
    \A i, j \in 1 .. Len(cells) : SameKey(cells[i], cells[j]) => i = j

C29_OneToOneDistinct ==
    (eq_result.kind = "Ok" /\ DistinctKeys(eq_a) /\ DistinctKeys(eq_b)) =>
        /\ eq_result.value = OneToOne(eq_a, eq_b)
        /\ eq_result.value = equal_content(eq_b, eq_a)

(***************************************************************************)
(* SpecArfcn: arfcn_to_frequency (cell_info.rs 66-183).  Frequencies are   *)
(* kept in kHz: every value of the function is a multiple of 1000 Hz and   *)
(* none leaves the range of u64.                                           *)
(***************************************************************************)
\* the arms of the LTE branch in the order of the if chain: the range, the
\* base frequency and the ARFCN subtracted
LTE_BANDS ==
    <<
      [band |-> 1, first |-> 0, last |-> 599, f_dl_low |-> 2110000, n_offs |-> 0],
      [band |-> 2, first |-> 600, last |-> 1199, f_dl_low |-> 1930000, n_offs |-> 600],
      [band |-> 3, first |-> 1200, last |-> 1949, f_dl_low |-> 1805000, n_offs |-> 1200],
      [band |-> 4, first |-> 1950, last |-> 2399, f_dl_low |-> 2110000, n_offs |-> 1949],
      [band |-> 5, first |-> 2400, last |-> 2649, f_dl_low |-> 869000, n_offs |-> 2400],
      [band |-> 7, first |-> 2750, last |-> 3449, f_dl_low |-> 2620000, n_offs |-> 2750],
      [band |-> 8, first |-> 3450, last |-> 3799, f_dl_low |-> 925000, n_offs |-> 3450],
      [band |-> 9, first |-> 3800, last |-> 4149, f_dl_low |-> 1844900, n_offs |-> 3800],
      [band |-> 10, first |-> 4150, last |-> 4749, f_dl_low |-> 2110000, n_offs |-> 4150],
      [band |-> 11, first |-> 4750, last |-> 4949, f_dl_low |-> 1475900, n_offs |-> 4750],
      [band |-> 12, first |-> 5010, last |-> 5179, f_dl_low |-> 729000, n_offs |-> 5010],
      [band |-> 13, first |-> 5180, last |-> 5279, f_dl_low |-> 746000, n_offs |-> 5180],
      [band |-> 14, first |-> 5280, last |-> 5379, f_dl_low |-> 758000, n_offs |-> 5280],
      [band |-> 17, first |-> 5730, last |-> 5849, f_dl_low |-> 734000, n_offs |-> 5730],
      [band |-> 18, first |-> 5850, last |-> 5999, f_dl_low |-> 860000, n_offs |-> 5850],
      [band |-> 19, first |-> 6000, last |-> 6149, f_dl_low |-> 875000, n_offs |-> 6000],
      [band |-> 20, first |-> 6150, last |-> 6449, f_dl_low |-> 791000, n_offs |-> 6150],
      [band |-> 21, first |-> 6450, last |-> 6599, f_dl_low |-> 1495900, n_offs |-> 6450],
      [band |-> 22, first |-> 6600, last |-> 7399, f_dl_low |-> 3510000, n_offs |-> 6600],
      [band |-> 24, first |-> 7700, last |-> 8039, f_dl_low |-> 1525000, n_offs |-> 7700],
      [band |-> 25, first |-> 8040, last |-> 8689, f_dl_low |-> 1930000, n_offs |-> 8040],
      [band |-> 26, first |-> 8690, last |-> 9039, f_dl_low |-> 859000, n_offs |-> 8690],
      [band |-> 27, first |-> 9040, last |-> 9209, f_dl_low |-> 852000, n_offs |-> 9040],
      [band |-> 28, first |-> 9210, last |-> 9659, f_dl_low |-> 758000, n_offs |-> 9210],
      [band |-> 29, first |-> 9660, last |-> 9769, f_dl_low |-> 728000, n_offs |-> 9660],
      [band |-> 30, first |-> 9770, last |-> 9869, f_dl_low |-> 2350000, n_offs |-> 9770],
      [band |-> 31, first |-> 9870, last |-> 9919, f_dl_low |-> 462500, n_offs |-> 9870],
      [band |-> 32, first |-> 9919, last |-> 10359, f_dl_low |-> 1492000, n_offs |-> 9919],
      [band |-> 65, first |-> 131072, last |-> 131971, f_dl_low |-> 2110000, n_offs |-> 131072],
      [band |-> 66, first |-> 131972, last |-> 132671, f_dl_low |-> 2110000, n_offs |-> 131972],
      [band |-> 68, first |-> 132672, last |-> 132971, f_dl_low |-> 753000, n_offs |-> 132672],
      [band |-> 70, first |-> 132972, last |-> 133121, f_dl_low |-> 1995000, n_offs |-> 132972],
      [band |-> 71, first |-> 133122, last |-> 133471, f_dl_low |-> 617000, n_offs |-> 133122]
    >>

RECURSIVE lte_band_from(_, _)
lte_band_from(arfcn, k) ==
    IF k > Len(LTE_BANDS) THEN None
    ELSE IF LTE_BANDS[k].first <= arfcn /\ arfcn <= LTE_BANDS[k].last THEN Some(LTE_BANDS[k])
    ELSE lte_band_from(arfcn, k + 1)

\* the first arm whose range contains the ARFCN
lte_band(arfcn) == lte_band_from(arfcn, 1)

\* (delta_f_global, f_ref_offs, n_ref_offs) of the NR branch
nr_params(arfcn) ==
    IF arfcn <= 599999 THEN [delta_f_global |-> 5, f_ref_offs |-> 0, n_ref_offs |-> 0]
    ELSE IF arfcn <= 2016666
    THEN [delta_f_global |-> 15, f_ref_offs |-> 3000000, n_ref_offs |-> 600000]
    ELSE [delta_f_global |-> 60, f_ref_offs |-> 24250080, n_ref_offs |-> 2016667]

\* arfcn_to_frequency, in kHz
arfcn_to_frequency(arfcn, cell_type) ==
    IF cell_type = "LTE"
    THEN LET arm == lte_band(arfcn)
         IN  IF arm.kind = "None" THEN Err
             ELSE Ok(arm.value.f_dl_low + 100 * (arfcn - arm.value.n_offs))
    ELSE LET params == nr_params(arfcn)
         IN  Ok(params.f_ref_offs + params.delta_f_global * (arfcn - params.n_ref_offs))

MaxLteArfcn == 10400
MaxNrArfcn == 3279165

LteArfcns == 0 .. MaxLteArfcn \cup 131000 .. 133500

NrArfcns ==
    {0, 1, 422000, 599999, 600000, 600001, 620000, 2016666, 2016667, 2016668, MaxNrArfcn}

InitArfcn ==
    /\ ArfcnOthersIdle
    /\ arfcn_in \in {Some([arfcn |-> a, cell_type |-> "LTE"]) : a \in LteArfcns}
                    \cup {Some([arfcn |-> a, cell_type |-> "NR"]) : a \in NrArfcns}
    /\ arfcn_out = NotCalled

ArfcnToFrequency ==
    /\ arfcn_out.kind = "not_called"
    /\ arfcn_out' = arfcn_to_frequency(arfcn_in.value.arfcn, arfcn_in.value.cell_type)
    /\ UNCHANGED arfcn_in
    /\ UNCHANGED notArfcn

NextArfcn == ArfcnToFrequency

SpecArfcn == InitArfcn /\ [][NextArfcn]_vars

(***************************************************************************)
(* C22 as claimed: for every LTE ARFCN inside a band range the function    *)
(* returns the band's downlink base frequency plus 100 kHz times the       *)
(* offset of the ARFCN from the first ARFCN of the band (the first         *)
(* matching band at 9919); for every NR ARFCN it returns                   *)
(* F_ref_offs + dF_global * (arfcn - N_ref_offs) kHz; an LTE ARFCN outside *)
(* every range is an error; and the six documented values are returned.    *)
(***************************************************************************)
InBand(arfcn, k) == LTE_BANDS[k].first <= arfcn /\ arfcn <= LTE_BANDS[k].last

FirstBand(arfcn) ==
    LTE_BANDS[CHOOSE k \in 1 .. Len(LTE_BANDS) :
                 InBand(arfcn, k) /\ \A j \in 1 .. k - 1 : ~InBand(arfcn, j)]

Documented(arfcn, cell_type) ==
    IF cell_type = "NR"
    THEN Ok(nr_params(arfcn).f_ref_offs
            + nr_params(arfcn).delta_f_global * (arfcn - nr_params(arfcn).n_ref_offs))
    ELSE IF \E k \in 1 .. Len(LTE_BANDS) : InBand(arfcn, k)
    THEN Ok(FirstBand(arfcn).f_dl_low + 100 * (arfcn - FirstBand(arfcn).first))
    ELSE Err

GoldenArfcn ==
    {<<"LTE", 2750, 2620000>>, <<"LTE", 1710, 1856000>>, <<"LTE", 300, 2140000>>,
     <<"NR", 422000, 2110000>>, <<"NR", 620000, 3300000>>, <<"NR", 2016667, 24250080>>}

ArfcnCalled == arfcn_out.kind # "not_called"

C22_ArfcnToFrequency ==
    ArfcnCalled =>
        /\ arfcn_out.kind = Documented(arfcn_in.value.arfcn, arfcn_in.value.cell_type).kind
        /\ arfcn_out.value = Documented(arfcn_in.value.arfcn, arfcn_in.value.cell_type).value
        /\ \A g \in GoldenArfcn :
              (arfcn_in.value.cell_type = g[1] /\ arfcn_in.value.arfcn = g[2])
                  => (arfcn_out.kind = "Ok" /\ arfcn_out.value = g[3])

\* the same outside band 4, whose arm subtracts 1949 where the band starts at 1950
C22_OutsideBand4 ==
    (ArfcnCalled /\ ~(arfcn_in.value.cell_type = "LTE" /\ arfcn_in.value.arfcn \in 1950 .. 2399))
        => /\ arfcn_out.kind = Documented(arfcn_in.value.arfcn, arfcn_in.value.cell_type).kind
           /\ arfcn_out.value = Documented(arfcn_in.value.arfcn, arfcn_in.value.cell_type).value
           /\ \A g \in GoldenArfcn :
                 (arfcn_in.value.cell_type = g[1] /\ arfcn_in.value.arfcn = g[2])
                     => (arfcn_out.kind = "Ok" /\ arfcn_out.value = g[3])

(***************************************************************************)
(* SpecCgi: CellInfo::from_cgi_response (cell_info.rs 311-336) and the     *)
(* cgi_response_extract_ helpers (382-483).  A JSON string is the sequence *)
(* of its characters.                                                      *)
(***************************************************************************)
DecDigits == <<"0", "1", "2", "3", "4", "5", "6", "7", "8", "9">>
HexUpper == <<"A", "B", "C", "D", "E", "F">>
HexLower == <<"a", "b", "c", "d", "e", "f">>

IndexOf(seq, x) == CHOOSE i \in 1 .. Len(seq) : seq[i] = x
IsIn(seq, x) == \E i \in 1 .. Len(seq) : seq[i] = x

\* char::to_digit(radix)
to_digit(c, radix) ==
    IF IsIn(DecDigits, c) THEN Some(IndexOf(DecDigits, c) - 1)
    ELSE IF radix = 16 /\ IsIn(HexUpper, c) THEN Some(IndexOf(HexUpper, c) + 9)
    ELSE IF radix = 16 /\ IsIn(HexLower, c) THEN Some(IndexOf(HexLower, c) + 9)
    ELSE None

RECURSIVE digits_value(_, _)
digits_value(chars, radix) ==
    IF chars = << >> THEN 0
    ELSE digits_value(SubSeq(chars, 1, Len(chars) - 1), radix) * radix
         + to_digit(chars[Len(chars)], radix).value

AllDigits(chars, radix) ==
    chars # << >> /\ \A i \in 1 .. Len(chars) : to_digit(chars[i], radix).kind = "Some"

\* u64::from_str_radix and str::parse::<u64> on the strings of the model
u64_from_str_radix(chars, radix) ==
    IF AllDigits(chars, radix) THEN Ok(digits_value(chars, radix)) ELSE Err

\* str::parse::<f64> on an optional sign and decimal digits; the model holds
\* no other string that f64 accepts
parse_f64(chars) ==
    IF chars # << >> /\ chars[1] = "-"
    THEN IF AllDigits(Tail(chars), 10) THEN Ok(0 - digits_value(Tail(chars), 10)) ELSE Err
    ELSE IF AllDigits(chars, 10) THEN Ok(digits_value(chars, 10)) ELSE Err

RECURSIVE trim_start(_)
trim_start(chars) ==
    IF chars # << >> /\ chars[1] = " " THEN trim_start(Tail(chars)) ELSE chars

RECURSIVE trim_end(_)
trim_end(chars) ==
    IF chars # << >> /\ chars[Len(chars)] = " "
    THEN trim_end(SubSeq(chars, 1, Len(chars) - 1)) ELSE chars

\* str::trim
trim(chars) == trim_end(trim_start(chars))

\* CellularType::from_str
CellularType_from_str(cell_str) ==
    IF cell_str \in {<<"L", "T", "E">>, <<"4", "G">>} THEN Ok("LTE")
    ELSE IF cell_str \in {<<"N", "R">>, <<"5", "G">>} THEN Ok("NR")
    ELSE Err

\* the fall-through arm is 100 as well
prb_from_cell_id(cell_id) == IF cell_id \in {21, 6} THEN 50 ELSE 100

cgi_response_extract_cell_id(response) == u64_from_str_radix(response.cellid, 16)

cgi_response_extract_cell_type(response) == CellularType_from_str(response.net_type)

cgi_response_extract_frequency(response, cell_type) ==
    LET arfcn == u64_from_str_radix(response.earfcn, 10)
    IN  IF arfcn.kind = "Err" THEN Err ELSE arfcn_to_frequency(arfcn.value, cell_type)

\* the places where \((-?\d+)dBm\) matches: the "(" and the last digit
RssiMatches(chars) ==
    {m \in (1 .. Len(chars)) \X (1 .. Len(chars)) :
        /\ chars[m[1]] = "("
        /\ m[2] > m[1]
        /\ m[2] + 4 <= Len(chars)
        /\ LET digits == IF chars[m[1] + 1] = "-"
                         THEN SubSeq(chars, m[1] + 2, m[2])
                         ELSE SubSeq(chars, m[1] + 1, m[2])
           IN  AllDigits(digits, 10)
        /\ SubSeq(chars, m[2] + 1, m[2] + 4) = <<"d", "B", "m", ")">>}

cgi_response_extract_rssi(response) ==
    LET chars == response.signal
        found == RssiMatches(chars)
    IN  IF found = {} THEN Err
        ELSE LET first == CHOOSE m \in found : \A n \in found : m[1] <= n[1]
             IN  parse_f64(SubSeq(chars, first[1] + 1, first[2]))

\* rsrp_str[..rsrp_str.len() - 3]: the subtraction panics with overflow checks
\* and the slice index panics without
cgi_response_extract_rsrp(response) ==
    LET rsrp_str == response.rsrp
    IN  IF Len(rsrp_str) < 3 THEN Panic
        ELSE parse_f64(trim(SubSeq(rsrp_str, 1, Len(rsrp_str) - 3)))

cgi_response_extract_rsrq(response) ==
    LET rsrp_str == response.rsrq
    IN  IF Len(rsrp_str) < 2 THEN Panic
        ELSE parse_f64(trim(SubSeq(rsrp_str, 1, Len(rsrp_str) - 2)))

\* CellInfo::from_cgi_response: each `?` returns the first error
from_cgi_response(response_value) ==
    LET cell_id == cgi_response_extract_cell_id(response_value)
        cell_type == cgi_response_extract_cell_type(response_value)
        frequency == cgi_response_extract_frequency(response_value, cell_type.value)
        rssi == cgi_response_extract_rssi(response_value)
        for_rsrq == cgi_response_extract_rsrp(response_value)
        for_rsrp == cgi_response_extract_rsrq(response_value)
    IN  IF cell_id.kind # "Ok" THEN cell_id
        ELSE IF cell_type.kind # "Ok" THEN cell_type
        ELSE IF frequency.kind # "Ok" THEN frequency
        ELSE IF rssi.kind # "Ok" THEN rssi
        ELSE IF for_rsrq.kind # "Ok" THEN for_rsrq
        ELSE IF for_rsrp.kind # "Ok" THEN for_rsrp
        ELSE Ok(<<[cell_id |-> cell_id.value, cell_type |-> cell_type.value,
                   nof_prb |-> prb_from_cell_id(cell_id.value),
                   frequency |-> frequency.value, rssi |-> rssi.value,
                   rsrp |-> for_rsrp.value, rsrq |-> for_rsrq.value]>>)

\* the fixture of the tests, dummy_response
dummy_response ==
    [cellid |-> <<"1", "C", "1", "7", "3", "0", "2">>, net_type |-> <<"L", "T", "E">>, signal |-> <<"3", "1", "a", "s", "u", " ", "(", "-", "5", "1", "d", "B", "m", ")">>,
     earfcn |-> <<"1", "3", "0", "0">>, rsrp |-> <<"-", "7", "7", "d", "B", "m">>, rsrq |-> <<"-", "8", "d", "B">>]

CgiResponses ==
    [cellid : {dummy_response.cellid, <<"7">>, <<"z">>},
     net_type : {dummy_response.net_type, <<"5", "G">>, <<"3", "G">>},
     signal : {dummy_response.signal, <<"(", "-", "6", "0", "d", "B", "m", ")">>,
               <<"3", "1", "a", "s", "u">>},
     earfcn : {dummy_response.earfcn, <<"3", "0", "0">>, <<"9", "9", "9", "9", "9">>},
     rsrp : {dummy_response.rsrp, <<"-", "1", "2", "0", " ", "d", "B", "m">>,
             <<"-", "8", "d", "B", "m">>, <<"d", "B">>},
     rsrq : {dummy_response.rsrq, <<"-", "1", "3", "d", "B">>, <<"-", "7", "7", "d", "B">>}]

InitCgi ==
    /\ CgiOthersIdle
    /\ cgi_response \in {Some(r) : r \in CgiResponses}
    /\ cgi_result = NotCalled

FromCgiResponse ==
    /\ cgi_result.kind = "not_called"
    /\ cgi_result' = from_cgi_response(cgi_response.value)
    /\ UNCHANGED cgi_response
    /\ UNCHANGED notCgi

NextCgi == FromCgiResponse

SpecCgi == InitCgi /\ [][NextCgi]_vars

(***************************************************************************)
(* C23 as claimed: for the Milesight fixture from_cgi_response yields a    *)
(* single cell with cell_id = 0x1C17302, type LTE, rssi = -51, rsrp = -77, *)
(* rsrq = -8 and frequency = 1815000 kHz; each extracted value is stored   *)
(* in the field of the same name.                                          *)
(***************************************************************************)
SameNameFields(response, cell) ==
    /\ cell.cell_id = cgi_response_extract_cell_id(response).value
    /\ cell.cell_type = cgi_response_extract_cell_type(response).value
    /\ cell.frequency = cgi_response_extract_frequency(response, cell.cell_type).value
    /\ cell.rssi = cgi_response_extract_rssi(response).value
    /\ cell.rsrp = cgi_response_extract_rsrp(response).value
    /\ cell.rsrq = cgi_response_extract_rsrq(response).value

C23_CgiFixture ==
    /\ cgi_result.kind = "Ok" =>
          /\ Len(cgi_result.value) = 1
          /\ SameNameFields(cgi_response.value, cgi_result.value[1])
    /\ (cgi_result.kind # "not_called" /\ cgi_response.value = dummy_response) =>
          /\ cgi_result.kind = "Ok"
          /\ Len(cgi_result.value) = 1
          /\ cgi_result.value[1].cell_id = 29455106
          /\ cgi_result.value[1].cell_type = "LTE"
          /\ cgi_result.value[1].rssi = 0 - 51
          /\ cgi_result.value[1].rsrp = 0 - 77
          /\ cgi_result.value[1].rsrq = 0 - 8
          /\ cgi_result.value[1].frequency = 1815000

\* the fields other than rsrp and rsrq
C23_OtherFields ==
    /\ cgi_result.kind = "Ok" =>
          /\ Len(cgi_result.value) = 1
          /\ LET cell == cgi_result.value[1]
                 response == cgi_response.value
             IN  /\ cell.cell_id = cgi_response_extract_cell_id(response).value
                 /\ cell.cell_type = cgi_response_extract_cell_type(response).value
                 /\ cell.frequency
                       = cgi_response_extract_frequency(response, cell.cell_type).value
                 /\ cell.rssi = cgi_response_extract_rssi(response).value
                 /\ cell.rsrp = cgi_response_extract_rsrq(response).value
                 /\ cell.rsrq = cgi_response_extract_rsrp(response).value
    /\ (cgi_result.kind # "not_called" /\ cgi_response.value = dummy_response) =>
          /\ cgi_result.kind = "Ok"
          /\ cgi_result.value[1].cell_id = 29455106
          /\ cgi_result.value[1].cell_type = "LTE"
          /\ cgi_result.value[1].rssi = 0 - 51
          /\ cgi_result.value[1].frequency = 1815000

(***************************************************************************)
(* SpecDl: the state machine of the downloader (downloader.rs 165-238 and  *)
(* the handle_ functions, 300-457), for iterations that pass the precheck. *)
(* Clock readings and the outcome of the socket calls are choices.         *)
(***************************************************************************)
INITIAL_SLEEP_TIME_MS == 20000
READILY_WAITING_SLEEP_TIME_MS == 500
RECOVERY_SLEEP_TIME_MS == 2000
BETWEEN_DOWNLOADS_SLEEP_TIME_MS == 1000

NofPaths == 3
MaxDownloads == 4

DlState(name) == [name |-> name, sleep_time_ms |-> 0, next_state |-> "-"]

\* DownloaderState::SleepMs(sleep_time_ms, Box::new(next_state))
DlSleepMs(sleep_time_ms, next_state) ==
    [name |-> "SleepMs", sleep_time_ms |-> sleep_time_ms, next_state |-> next_state]

is_idle_scenario(scenario) == scenario # "PerformMeasurement"

InitDl ==
    /\ DlOthersIdle
    /\ downloader_state = DlSleepMs(INITIAL_SLEEP_TIME_MS, "StartDownload")
    /\ path_list_index = 0
    /\ stream_handle = "None"
    /\ timedata_is_empty = TRUE
    /\ finish_timestamp_us = "None"
    /\ dl_scenario \in {"TrackCellDciOnly", "TrackUeAndEstimateTransportCapacity",
                        "PerformMeasurement"}
    /\ dl_opened = << >>

\* the StartDownload arm and handle_start_download: current_download is
\* reset, create_download_stream connects or fails
dl_start_download ==
    /\ timedata_is_empty' = TRUE
    /\ finish_timestamp_us' = "None"
    /\ \E connected \in BOOLEAN :
          IF connected
          THEN /\ stream_handle' = "Some"
               /\ dl_opened' = Append(dl_opened, path_list_index)
               /\ downloader_state' = DlState("Downloading")
          ELSE /\ downloader_state' = DlState("ErrorStartingDownload")
               /\ UNCHANGED <<stream_handle, dl_opened>>
    /\ UNCHANGED path_list_index

\* the Downloading arm, handle_downloading: the outcomes of stream.read
dl_downloading ==
    /\ stream_handle = "Some"
    /\ \E read \in {"eof", "chunk_rtt", "chunk_no_rtt", "WouldBlock", "timeout",
                    "ConnectionReset", "other"} :
          /\ read = "timeout" => timedata_is_empty
          /\ downloader_state' =
                IF read = "eof" THEN DlState("PostDownload")
                ELSE IF read \in {"chunk_rtt", "chunk_no_rtt", "WouldBlock"}
                THEN DlState("Downloading")
                ELSE IF read = "ConnectionReset" THEN DlState("FinishDownload")
                ELSE DlState("ErrorStartingDownload")
          /\ finish_timestamp_us' = IF read = "eof" THEN "Some" ELSE finish_timestamp_us
          /\ timedata_is_empty' = IF read = "chunk_rtt" THEN FALSE ELSE timedata_is_empty
    /\ UNCHANGED <<path_list_index, stream_handle, dl_opened>>

\* the PostDownload arm, handle_post_download
dl_post_download ==
    /\ finish_timestamp_us = "Some"
    /\ \E waited \in BOOLEAN :
          downloader_state' = IF waited THEN DlState("FinishDownload")
                              ELSE DlState("PostDownload")
    /\ UNCHANGED <<path_list_index, stream_handle, timedata_is_empty, finish_timestamp_us,
                   dl_opened>>

\* the FinishDownload arm, handle_finish_download
dl_finish_download ==
    /\ path_list_index' = (path_list_index + 1) % NofPaths
    /\ stream_handle' = "None"
    /\ downloader_state' = DlSleepMs(BETWEEN_DOWNLOADS_SLEEP_TIME_MS, "StartDownload")
    /\ UNCHANGED <<timedata_is_empty, finish_timestamp_us, dl_opened>>

\* one iteration of the loop of run that passes check_not_stopped and the
\* two unpack_all_ calls
Downloader_loop ==
    /\ downloader_state.name # "Stopped"
    /\ Len(dl_opened) < MaxDownloads
    /\ IF is_idle_scenario(dl_scenario)
       THEN UNCHANGED <<downloader_state, path_list_index, stream_handle, timedata_is_empty,
                        finish_timestamp_us, dl_opened>>
       ELSE \/ /\ downloader_state.name = "Ready"
               /\ downloader_state' = DlSleepMs(READILY_WAITING_SLEEP_TIME_MS, "Ready")
               /\ UNCHANGED <<path_list_index, stream_handle, timedata_is_empty,
                              finish_timestamp_us, dl_opened>>
            \/ /\ downloader_state.name = "SleepMs"
               /\ downloader_state' = DlState(downloader_state.next_state)
               /\ UNCHANGED <<path_list_index, stream_handle, timedata_is_empty,
                              finish_timestamp_us, dl_opened>>
            \/ downloader_state.name = "StartDownload" /\ dl_start_download
            \/ downloader_state.name = "Downloading" /\ dl_downloading
            \/ downloader_state.name = "FinishDownload" /\ dl_finish_download
            \/ /\ downloader_state.name = "ErrorStartingDownload"
               /\ downloader_state' = DlSleepMs(RECOVERY_SLEEP_TIME_MS, "StartDownload")
               /\ UNCHANGED <<path_list_index, stream_handle, timedata_is_empty,
                              finish_timestamp_us, dl_opened>>
            \/ downloader_state.name = "PostDownload" /\ dl_post_download
    /\ UNCHANGED dl_scenario
    /\ UNCHANGED notDl

NextDl == Downloader_loop

SpecDl == InitDl /\ [][NextDl]_vars

(***************************************************************************)
(* C24 as claimed: the downloader starts with Sleep(20 s) then             *)
(* StartDownload; every download goes StartDownload -> Downloading ->      *)
(* (PostDownload -> FinishDownload | FinishDownload |                      *)
(* ErrorStartingDownload) -> Sleep -> StartDownload, and each              *)
(* StartDownload opens the next path of the list in round-robin order.     *)
(***************************************************************************)
DlMayFollow(from, to) ==
    \/ from.name = "SleepMs" /\ to.name = "StartDownload" /\ from.next_state = "StartDownload"
    \/ from.name = "StartDownload" /\ to.name \in {"Downloading", "ErrorStartingDownload"}
    \/ from.name = "Downloading"
          /\ to.name \in {"Downloading", "PostDownload", "FinishDownload",
                          "ErrorStartingDownload"}
    \/ from.name = "PostDownload" /\ to.name \in {"PostDownload", "FinishDownload"}
    \/ from.name \in {"FinishDownload", "ErrorStartingDownload"}
          /\ to.name = "SleepMs" /\ to.next_state = "StartDownload"

DlRoundRobin ==
    \A i \in 1 .. Len(dl_opened) : dl_opened[i] = (i - 1) % NofPaths

DlStartsSleeping ==
    dl_opened = << >> =>
        \/ downloader_state = DlSleepMs(INITIAL_SLEEP_TIME_MS, "StartDownload")
        \/ downloader_state.name \in {"StartDownload", "ErrorStartingDownload"}
        \/ downloader_state = DlSleepMs(RECOVERY_SLEEP_TIME_MS, "StartDownload")

DlStep == downloader_state' # downloader_state => DlMayFollow(downloader_state, downloader_state')

C24_DownloadCycle == [](DlRoundRobin /\ DlStartsSleeping) /\ [][DlStep]_vars

\* the path index moves on at FinishDownload only: a download that ended in
\* ErrorStartingDownload is started again on the same path
DlOpensIndexed ==
    /\ path_list_index \in 0 .. NofPaths - 1
    /\ dl_opened # << >> =>
          \/ path_list_index = Last(dl_opened)
          \/ /\ path_list_index = (Last(dl_opened) + 1) % NofPaths
             /\ downloader_state.name \in {"SleepMs", "StartDownload", "ErrorStartingDownload"}

DlIndexStep ==
    path_list_index' # path_list_index =>
        /\ downloader_state.name = "FinishDownload"
        /\ path_list_index' = (path_list_index + 1) % NofPaths

C24_CycleOnFinish ==
    [](DlOpensIndexed /\ DlStartsSleeping) /\ [][DlStep /\ DlIndexStep]_vars

(***************************************************************************)
(* SpecCt: translate_physcial_to_transport_simple on its own               *)
(* (model_handler.rs 617-619)                                              *)
(***************************************************************************)
MaxCPhysical == 40000

InitCt ==
    /\ CtOthersIdle
    /\ ct_in \in {Some(c) : c \in 0 .. MaxCPhysical}
    /\ ct_out = NotCalled

TranslatePhysicalToTransport ==
    /\ ct_out.kind = "not_called"
    /\ ct_out' = Ok(translate_physcial_to_transport_simple(ct_in.value))
    /\ UNCHANGED ct_in
    /\ UNCHANGED notCt

NextCt == TranslatePhysicalToTransport

SpecCt == InitCt /\ [][NextCt]_vars

(***************************************************************************)
(* C25: the per-PRB rate of calculate_pbe_cc_capacity is                   *)
(* tbs_alloc_rnti_bit / p_alloc_rnti with coarse flag 0 when the target    *)
(* RNTI has p_alloc_rnti > 0 in the slice, otherwise                       *)
(* tbs_alloc_bit / p_alloc with coarse flag 1 when p_alloc > 0, otherwise  *)
(* the constant 500 with coarse flag 1; the flag is 0 exactly when the     *)
(* target RNTI's own PRBs were used.                                       *)
(***************************************************************************)
\* the target's entries with PRBs in the slice, taken from the input
OwnEntries(dci_list, target_rnti) ==
    SelectSeq(FlatMapDl(dci_list), LAMBDA e : e.rnti = target_rnti)

OwnPrb(dci_list, target_rnti) ==
    SeqSum([i \in 1 .. Len(OwnEntries(dci_list, target_rnti)) |->
               OwnEntries(dci_list, target_rnti)[i].dl_prb])

OwnBit(dci_list, target_rnti) ==
    SeqSum([i \in 1 .. Len(OwnEntries(dci_list, target_rnti)) |->
               OwnEntries(dci_list, target_rnti)[i].dl_tbs_bit])

AllPrb(dci_list) == SeqSum([i \in 1 .. Len(dci_list) |-> dci_list[i].total_dl_prb])

AllBit(dci_list) == SeqSum([i \in 1 .. Len(dci_list) |-> dci_list[i].total_dl_tbs_bit])

C25_PerPrbRate ==
    cap_out.ok =>
        LET own_prb == OwnPrb(cap_in.dci_list, cap_in.target_rnti)
            own_bit == OwnBit(cap_in.dci_list, cap_in.target_rnti)
            all_prb == AllPrb(cap_in.dci_list)
            all_bit == AllBit(cap_in.dci_list)
        IN  /\ cap_out.physical_rate_coarse_flag = 0 <=> own_prb > 0
            /\ own_prb > 0 => cap_out.physical_rate_bit_per_prb = own_bit \div own_prb
            /\ (own_prb = 0 /\ all_prb > 0) =>
                  /\ cap_out.physical_rate_bit_per_prb = all_bit \div all_prb
                  /\ cap_out.physical_rate_coarse_flag = 1
            /\ (own_prb = 0 /\ all_prb = 0) =>
                  /\ cap_out.physical_rate_bit_per_prb = 500
                  /\ cap_out.physical_rate_coarse_flag = 1

C25_Witness ==
    /\ cap_out.ok
    /\ cap_out.physical_rate_coarse_flag = 1
    /\ AllPrb(cap_in.dci_list) > 0
    /\ cap_out.physical_rate_bit_per_prb # 500
    /\ cap_out.physical_rate_bit_per_prb = AllBit(cap_in.dci_list) \div AllPrb(cap_in.dci_list)

C25_WitnessOwn ==
    /\ cap_out.ok
    /\ cap_out.physical_rate_coarse_flag = 0
    /\ OwnPrb(cap_in.dci_list, cap_in.target_rnti) > 0

C25_WitnessConstant ==
    /\ cap_out.ok
    /\ AllPrb(cap_in.dci_list) = 0
    /\ cap_out.physical_rate_bit_per_prb = 500

(***************************************************************************)
(* C26 as claimed: for every physical rate c_p the transport fair-share    *)
(* rate c_t equals c_p * (1 - 0.068) rounded to the nearest integer.       *)
(***************************************************************************)
RoundedTransport(c_p) == (c_p * 932 + 500) \div 1000

C26_TransportRounded ==
    ct_out.kind = "Ok" => ct_out.value = RoundedTransport(ct_in.value)

\* what holds: c_t is c_p * 0.932 rounded down, or one less where the
\* product is an integer and the f64 product falls short of it
C26_TransportTruncated ==
    ct_out.kind = "Ok" =>
        \/ ct_out.value = (ct_in.value * 932) \div 1000
        \/ /\ ct_in.value % 250 = 0
           /\ ct_out.value = (ct_in.value * 932) \div 1000 - 1

\* the same in the results of the capacity calculation
C26_CapacityTransport ==
    cap_out.ok =>
        LET c_p == cap_out.physical_fair_share_capacity_bit_per_ms
            c_t == cap_out.transport_fair_share_capacity_bit_per_ms
        IN  \/ c_t = (c_p * 932) \div 1000
            \/ c_p % 250 = 0 /\ c_t = (c_p * 932) \div 1000 - 1

(***************************************************************************)
(* SpecMh: the loop of the model handler (model_handler.rs 181-276)        *)
(***************************************************************************)
MaxMhDci == 4
MaxNow == 3001
MaxMetrics == 2
\* the time_stamp values of the DCIs received
MhStamps == {1, 2}

\* an f64 argument value num / den, den a power of two
Value(num, den) == [num |-> num, den |-> den]

\* FlattenedModelArgs: interval and smoothing, each FixedMs or RttFactor
ModelArgs(interval_type, interval_value, smoothing_type, smoothing_value) ==
    [interval_type |-> interval_type, interval_value |-> interval_value,
     smoothing_type |-> smoothing_type, smoothing_value |-> smoothing_value]

\* scenario and arguments of a run: 1 ms and 2 DCIs; RTT/16 and RTT/16000;
\* 0 ms and RTT/1000 (40 DCIs before the cap); RTT/16 and no DCI at all
MhConfigs ==
    {<<"TrackCellDciOnly", ModelArgs("FixedMs", Value(1, 1), "FixedMs", Value(2, 1))>>,
     <<"PerformMeasurement", ModelArgs("FixedMs", Value(1, 1), "FixedMs", Value(2, 1))>>,
     <<"PerformMeasurement", ModelArgs("RttFactor", Value(1, 16), "RttFactor", Value(1, 16))>>,
     <<"TrackUeAndEstimateTransportCapacity",
       ModelArgs("FixedMs", Value(1, 16), "RttFactor", Value(1, 1))>>,
     <<"TrackUeAndEstimateTransportCapacity",
       ModelArgs("RttFactor", Value(1, 16), "FixedMs", Value(0, 1))>>}

\* a smoothing size that is not capped
determine_smoothing_size_mut(model_args, last_rtt_us) ==
    IF model_args.smoothing_type = "FixedMs"
    THEN model_args.smoothing_value.num \div model_args.smoothing_value.den
    ELSE (last_rtt_us.value * model_args.smoothing_value.num)
            \div (model_args.smoothing_value.den * 1000)

\* determine_sending_interval
determine_sending_interval(model_args, last_rtt_us) ==
    IF model_args.interval_type = "FixedMs"
    THEN (model_args.interval_value.num \div model_args.interval_value.den) * 1000
    ELSE (last_rtt_us.value * model_args.interval_value.num)
            \div model_args.interval_value.den

\* determine_smoothing_size
determine_smoothing_size(model_args, last_rtt_us) ==
    LET unbound_slice ==
            IF model_args.smoothing_type = "FixedMs"
            THEN model_args.smoothing_value.num \div model_args.smoothing_value.den
            ELSE (last_rtt_us.value * model_args.smoothing_value.num)
                    \div (model_args.smoothing_value.den * 1000)
    IN  IF unbound_slice > MAX_DCI_SLICE_SIZE THEN MAX_DCI_SLICE_SIZE
        ELSE unbound_slice

\* the state of run when it enters its loop
InitMh ==
    /\ MhOthersIdle
    /\ \E c \in MhConfigs : mh_scenario = c[1] /\ mh_args = c[2]
    /\ mh_pc = "loop"
    /\ mh_dci_buffer = [dci_array |-> [i \in ArrayIndex |-> CellDci(0, 0, 0, 0, << >>)],
                        dci_next |-> 0]
    /\ mh_nof_dci = 0
    /\ mh_last_rnti = None
    /\ mh_last_cell_info = None
    /\ mh_last_rnti_share_type = RNTI_SHARE_TYPE_ALL
    /\ mh_last_rtt_us = Some(40000)
    /\ mh_metric_sending_interval_us = determine_sending_interval(mh_args, Some(40000))
    /\ mh_metric_smoothing_size_ms = determine_smoothing_size(mh_args, Some(40000))
    /\ mh_last_metric_timestamp_us = 0
    /\ mh_now = 0
    /\ mh_tx_metric = << >>
    /\ mh_seen = {}

\* what the four buses can hold when the loop polls them
MhDcis ==
    {[DciTwoUe EXCEPT !.time_stamp = t] : t \in MhStamps}
        \cup {[DciOver EXCEPT !.time_stamp = 1]}

MhCellInfos == {<< >>, <<100>>}

\* MessageRnti.cell_rnti as a set of <<cell_id, rnti>>
MhRntiMsgs == {{}, {<<0, 123>>}, {<<1, 123>>}}

MhDownloadConfigs == {[rtt_us |-> 16000, rnti_share_type |-> RNTI_SHARE_TYPE_GREEDY]}

TimeSteps == {500, 2501}

OptionOf(S) == {None} \cup {Some(x) : x \in S}

\* handle_calculate_metric; results: what is broadcast (a sequence of at most
\* one MetricA), whether the round counted, whether the thread panicked
mh_handle_calculate_metric(buffer, rnti, cell_info, smoothing_size, share_type, now_us) ==
    LET buffer_slice == slice(buffer, smoothing_size)
    IN  IF buffer_slice = << >>
        THEN [out |-> << >>, round |-> FALSE, panic |-> FALSE]
        ELSE IF cell_info = << >>
        THEN [out |-> << >>, round |-> FALSE, panic |-> TRUE]
        ELSE LET result == calculate_capacity(rnti, cell_info[1], buffer_slice, share_type)
             IN  [out |-> IF result.ok THEN <<MetricA(result, buffer_slice, now_us)>>
                          ELSE << >>,
                  round |-> TRUE, panic |-> FALSE]

\* one iteration of the loop that does not end it
Mh_loop ==
    /\ mh_pc = "loop"
    /\ Len(mh_tx_metric) < MaxMetrics
    /\ \E dci \in OptionOf(MhDcis), cell \in OptionOf(MhCellInfos),
          rnti_msg \in OptionOf(MhRntiMsgs), cfg \in OptionOf(MhDownloadConfigs),
          d \in TimeSteps :
        /\ dci.kind = "Some" => mh_nof_dci < MaxMhDci
        /\ mh_now + d <= MaxNow
        /\ \E first \in IF rnti_msg.kind = "Some" /\ rnti_msg.value # {}
                         THEN rnti_msg.value ELSE {<<0, 0>>} :
            LET buffer == IF dci.kind = "Some" THEN push(mh_dci_buffer, dci.value)
                          ELSE mh_dci_buffer
                cell_info == IF cell.kind = "Some" THEN cell ELSE mh_last_cell_info
                has_rnti == rnti_msg.kind = "Some" /\ rnti_msg.value # {}
                \* print_debug(.. rnti_msg.cell_rnti.get(&0).unwrap() ..)
                get0_panics == has_rnti /\ ~(\E e \in rnti_msg.value : e[1] = 0)
                last_rnti == IF has_rnti THEN Some(first[2]) ELSE mh_last_rnti
                rtt == IF cfg.kind = "Some" THEN Some(cfg.value.rtt_us) ELSE mh_last_rtt_us
                share == IF cfg.kind = "Some" THEN cfg.value.rnti_share_type
                         ELSE mh_last_rnti_share_type
                now == mh_now + d
                due == /\ mh_scenario # "TrackCellDciOnly"
                       /\ last_rnti.kind = "Some"
                       /\ cell_info.kind = "Some"
                       /\ now - mh_last_metric_timestamp_us > mh_metric_sending_interval_us
                h == mh_handle_calculate_metric(buffer, last_rnti.value, cell_info.value,
                                                mh_metric_smoothing_size_ms, share, now)
            IN  /\ mh_dci_buffer' = buffer
                /\ mh_nof_dci' = IF dci.kind = "Some" THEN mh_nof_dci + 1 ELSE mh_nof_dci
                /\ mh_last_cell_info' = cell_info
                /\ mh_last_rnti' = last_rnti
                /\ mh_seen' = mh_seen \cup (IF cell.kind = "Some" THEN {"cell_info"} ELSE {})
                                      \cup (IF has_rnti THEN {"rnti"} ELSE {})
                /\ mh_now' = now
                /\ IF get0_panics
                   THEN /\ mh_pc' = "panic"
                        /\ UNCHANGED <<mh_last_rtt_us, mh_last_rnti_share_type, mh_tx_metric,
                                       mh_last_metric_timestamp_us,
                                       mh_metric_sending_interval_us,
                                       mh_metric_smoothing_size_ms>>
                   ELSE /\ mh_last_rtt_us' = rtt
                        /\ mh_last_rnti_share_type' = share
                        /\ mh_pc' = IF due /\ h.panic THEN "panic" ELSE "loop"
                        /\ mh_tx_metric' = IF due THEN mh_tx_metric \o h.out ELSE mh_tx_metric
                        /\ IF due /\ h.round
                           THEN /\ mh_last_metric_timestamp_us' = now
                                /\ mh_metric_sending_interval_us' =
                                       determine_sending_interval(mh_args, rtt)
                                /\ mh_metric_smoothing_size_ms' =
                                       determine_smoothing_size(mh_args, rtt)
                           ELSE UNCHANGED <<mh_last_metric_timestamp_us,
                                            mh_metric_sending_interval_us,
                                            mh_metric_smoothing_size_ms>>
    /\ UNCHANGED <<mh_scenario, mh_args>>
    /\ UNCHANGED notMh

\* an iteration that finds Stopped on rx_app_state, or a bus disconnected
Mh_break ==
    /\ mh_pc = "loop"
    /\ mh_pc' = "done"
    /\ UNCHANGED <<mh_scenario, mh_args, mh_dci_buffer, mh_nof_dci, mh_last_rnti,
                   mh_last_cell_info, mh_last_rnti_share_type, mh_last_rtt_us,
                   mh_metric_sending_interval_us, mh_metric_smoothing_size_ms,
                   mh_last_metric_timestamp_us, mh_now, mh_tx_metric, mh_seen>>
    /\ UNCHANGED notMh

NextMh == Mh_loop \/ Mh_break

SpecMh == InitMh /\ [][NextMh]_vars

(***************************************************************************)
(* C27: ModelHandler broadcasts a MetricA only when it has already         *)
(* received a MessageRnti carrying at least one RNTI and a CellInfo, the   *)
(* scenario is not TrackCellDciOnly, the ring buffer is non-empty, and     *)
(* more than the current sending interval has elapsed since the last       *)
(* metric round (since the start of run before the first one); the slice   *)
(* it uses never holds more than MAX_DCI_SLICE_SIZE DCIs.                  *)
(***************************************************************************)
MetricSent == Len(mh_tx_metric') > Len(mh_tx_metric)

NewMetric == mh_tx_metric'[Len(mh_tx_metric')]

C27_MetricStep ==
    MetricSent =>
        /\ Len(mh_tx_metric') = Len(mh_tx_metric) + 1
        /\ {"rnti", "cell_info"} \subseteq mh_seen'
        /\ mh_scenario # "TrackCellDciOnly"
        /\ mh_nof_dci' > 0
        /\ mh_dci_buffer'.dci_next > 0
        /\ mh_now' - mh_last_metric_timestamp_us > mh_metric_sending_interval_us
        /\ NewMetric.timestamp_us = mh_now'
        /\ mh_last_metric_timestamp_us' = mh_now'

\* the rounds are counted from the start of run, and no metric is younger
\* than the last round; no slice is longer than the cap
C27_State ==
    /\ mh_last_metric_timestamp_us <= mh_now
    /\ \A i \in 1 .. Len(mh_tx_metric) :
          /\ mh_tx_metric[i].timestamp_us <= mh_last_metric_timestamp_us
          /\ mh_tx_metric[i].nof_dci <= MAX_DCI_SLICE_SIZE
          /\ mh_tx_metric[i].nof_dci >= 1
    /\ \A i \in 1 .. Len(mh_tx_metric) - 1 :
          mh_tx_metric[i].timestamp_us < mh_tx_metric[i + 1].timestamp_us

C27_MetricOnlyWhenDue == []C27_State /\ [][C27_MetricStep]_vars

\* two metrics sent, the second from a slice cut at the cap
C27_Witness ==
    /\ Len(mh_tx_metric) = 2
    /\ mh_nof_dci > MAX_DCI_SLICE_SIZE
    /\ mh_tx_metric[2].nof_dci = MAX_DCI_SLICE_SIZE

\* everything known and the interval over, but no metric: the slice was empty
C27_WitnessNoSlice ==
    /\ {"rnti", "cell_info"} \subseteq mh_seen
    /\ mh_scenario # "TrackCellDciOnly"
    /\ mh_pc = "loop"
    /\ mh_nof_dci > 0
    /\ mh_now - mh_last_metric_timestamp_us > mh_metric_sending_interval_us
    /\ mh_tx_metric = << >>

(***************************************************************************)
(* C28 as claimed: in every MetricA broadcast, latest_dci_timestamp_us is  *)
(* the time_stamp of the most recently pushed DCI of the slice and         *)
(* oldest_dci_timestamp_us that of the earliest one, so latest >= oldest   *)
(* when the time stamps were pushed in non-decreasing order, and nof_dci   *)
(* is the slice length.                                                    *)
(***************************************************************************)
\* the DCIs pushed so far, in the order of the pushes (no wrap within MaxMhDci)
Pushed == [i \in 1 .. mh_nof_dci' |-> mh_dci_buffer'.dci_array[i - 1]]

\* the last n of them, n the smoothing size the round was entered with
UsedSlice ==
    LET n == Min(mh_metric_smoothing_size_ms, mh_nof_dci')
    IN  SubSeq(Pushed, mh_nof_dci' - n + 1, mh_nof_dci')

NonDecreasing(S) == \A i \in 1 .. Len(S) - 1 : S[i].time_stamp <= S[i + 1].time_stamp

C28_ClaimedStep ==
    MetricSent =>
        /\ NewMetric.latest_dci_timestamp_us = UsedSlice[Len(UsedSlice)].time_stamp
        /\ NewMetric.oldest_dci_timestamp_us = UsedSlice[1].time_stamp
        /\ NonDecreasing(UsedSlice) =>
              NewMetric.latest_dci_timestamp_us >= NewMetric.oldest_dci_timestamp_us
        /\ NewMetric.nof_dci = Len(UsedSlice)

C28_MetricTimestamps == [][C28_ClaimedStep]_vars

\* what holds: the two fields hold each other's value
C28_SwappedStep ==
    MetricSent =>
        /\ NewMetric.latest_dci_timestamp_us = UsedSlice[1].time_stamp
        /\ NewMetric.oldest_dci_timestamp_us = UsedSlice[Len(UsedSlice)].time_stamp
        /\ NonDecreasing(UsedSlice) =>
              NewMetric.latest_dci_timestamp_us <= NewMetric.oldest_dci_timestamp_us
        /\ NewMetric.nof_dci = Len(UsedSlice)

C28_TimestampsSwapped == [][C28_SwappedStep]_vars

C28_Reached ==
    \E i \in 1 .. Len(mh_tx_metric) :
        mh_tx_metric[i].latest_dci_timestamp_us < mh_tx_metric[i].oldest_dci_timestamp_us

(***************************************************************************)
(* SpecRm: the supervisor's Running arm and the loop of the RNTI matcher   *)
(* (main.rs 236-274, rnti_matcher.rs 230-331)                              *)
(***************************************************************************)
MATCHING_INTERVAL_MS == 1000

MaxReports == 2
MaxRounds == 3
MaxCollected == 2

\* traffic_pattern_list: the pattern types of the configuration, each with
\* whether TrafficPatternFeatures::from_traffic_pattern succeeds for it
RmPattern(pattern_type, features_ok) ==
    [pattern_type |-> pattern_type, features_ok |-> features_ok]

RmPatternLists ==
    {<< >>,
     <<RmPattern("A", TRUE)>>,
     <<RmPattern("A", TRUE), RmPattern("B", TRUE)>>,
     <<RmPattern("A", TRUE), RmPattern("B", FALSE)>>}

RmScenarios == {"TrackCellDciOnly", "TrackUeAndEstimateTransportCapacity", "PerformMeasurement"}

\* TrafficCollection: how many DCIs cell_traffic indexes and the pattern of
\* traffic_pattern_features
TrafficCollection(cell_traffic, pattern_type) ==
    [cell_traffic |-> cell_traffic, pattern_type |-> pattern_type]

NoCollection == TrafficCollection(0, "none")

\* RntiMatcherState
MatcherState(kind, tc, time_ms, next) ==
    [kind |-> kind, tc |-> tc, time_ms |-> time_ms, next |-> next]

Plain(kind) == MatcherState(kind, NoCollection, 0, "none")

MatcherSleepMs(time_ms, next) == MatcherState("SleepMs", NoCollection, time_ms, next)

\* main after tx_app_state.broadcast(Running), the matcher after wait_for_running
InitRm ==
    /\ RmOthersIdle
    /\ rm_scenario \in RmScenarios
    /\ rm_patterns \in RmPatternLists
    /\ rm_sigint = FALSE
    /\ rm_app_state = "Running"
    /\ rm_main_pc = "loop"
    /\ rm_ng_open = TRUE
    /\ rm_ng_chan = << >>
    /\ rm_nof_reports = 0
    /\ rm_app_bus = << >>
    /\ rm_rx = 0
    /\ rm_pc = "loop"
    /\ rm_matcher_state = Plain("Idle")
    /\ rm_traffic_pattern_index = 0
    /\ rm_gen = << >>
    /\ rm_nof_rounds = 0

\* ngscope_controller.rs 145-148: the SuccessfulTriggerResponse arm
NgControl_report ==
    /\ rm_ng_open
    /\ rm_nof_reports < MaxReports
    /\ rm_ng_chan' = Append(rm_ng_chan, "SuccessfulTriggerResponse")
    /\ rm_nof_reports' = rm_nof_reports + 1
    /\ UNCHANGED <<rm_scenario, rm_patterns, rm_sigint, rm_app_state, rm_main_pc, rm_ng_open,
                   rm_app_bus, rm_rx, rm_pc, rm_matcher_state, rm_traffic_pattern_index,
                   rm_gen, rm_nof_rounds>>
    /\ UNCHANGED notRm

\* NgControl leaves run: it sends Stopped and drops its sender
NgControl_finish ==
    /\ rm_ng_open
    /\ rm_ng_open' = FALSE
    /\ rm_ng_chan' = Append(rm_ng_chan, "Stopped")
    /\ UNCHANGED <<rm_scenario, rm_patterns, rm_sigint, rm_app_state, rm_main_pc,
                   rm_nof_reports, rm_app_bus, rm_rx, rm_pc, rm_matcher_state,
                   rm_traffic_pattern_index, rm_gen, rm_nof_rounds>>
    /\ UNCHANGED notRm

\* the user presses Ctrl-C
Rm_sigint ==
    /\ ~rm_sigint
    /\ rm_sigint' = TRUE
    /\ UNCHANGED <<rm_scenario, rm_patterns, rm_app_state, rm_main_pc, rm_ng_open, rm_ng_chan,
                   rm_nof_reports, rm_app_bus, rm_rx, rm_pc, rm_matcher_state,
                   rm_traffic_pattern_index, rm_gen, rm_nof_rounds>>
    /\ UNCHANGED notRm

\* handle_running: what it broadcasts, what is left in the channel, whether
\* worker_try_recv()? returned Err(Disconnected)
handle_running(ng_chan, ng_open) ==
    IF ng_chan # << >>
    THEN [broadcast |-> IF Head(ng_chan) = "SuccessfulTriggerResponse"
                        THEN <<"UeConnectionReset">> ELSE << >>,
          ng_chan |-> Tail(ng_chan), err |-> FALSE]
    ELSE [broadcast |-> << >>, ng_chan |-> ng_chan, err |-> ~ng_open]

\* one iteration of main's loop (main.rs 236-257)
Rm_main_loop ==
    /\ rm_main_pc = "loop"
    /\ LET cur_app_state == IF rm_sigint /\ rm_app_state # "Stopped" THEN "NotifyStop"
                        ELSE rm_app_state
           h == handle_running(rm_ng_chan, rm_ng_open)
       IN  CASE cur_app_state = "Running" ->
                    /\ rm_app_bus' = rm_app_bus \o h.broadcast
                    /\ rm_ng_chan' = h.ng_chan
                    /\ rm_main_pc' = IF h.err THEN "returned" ELSE "loop"
                    /\ rm_app_state' = cur_app_state
              [] cur_app_state = "NotifyStop" ->
                    /\ rm_app_state' = "Stopped"
                    /\ rm_app_bus' = Append(rm_app_bus, "Stopped")
                    /\ UNCHANGED <<rm_ng_chan, rm_main_pc>>
              [] OTHER ->
                    \* print_worker_messages, then break once every task has finished
                    /\ rm_ng_chan' = IF rm_ng_chan # << >> THEN Tail(rm_ng_chan) ELSE rm_ng_chan
                    /\ rm_main_pc' = IF rm_pc # "loop" /\ ~rm_ng_open THEN "returned" ELSE "loop"
                    /\ UNCHANGED <<rm_app_state, rm_app_bus>>
    /\ UNCHANGED <<rm_scenario, rm_patterns, rm_sigint, rm_ng_open, rm_nof_reports, rm_rx,
                   rm_pc, rm_matcher_state, rm_traffic_pattern_index, rm_gen, rm_nof_rounds>>
    /\ UNCHANGED notRm

\* a start of a round that does not advance the pattern index
handle_start_matching_mut(traffic_pattern_list, traffic_pattern_index) ==
    IF traffic_pattern_list = << >>
    THEN [panic |-> TRUE, state |-> Plain("StartMatching"), index |-> traffic_pattern_index,
          sent |-> << >>]
    ELSE LET traffic_pattern == traffic_pattern_list[traffic_pattern_index + 1]
         IN  IF ~traffic_pattern.features_ok
             THEN [panic |-> FALSE, state |-> Plain("MatchingError"),
                   index |-> traffic_pattern_index, sent |-> << >>]
             ELSE [panic |-> FALSE,
                   state |-> MatcherState("MatchingCollectDci",
                                          TrafficCollection(0, traffic_pattern.pattern_type),
                                          0, "none"),
                   index |-> traffic_pattern_index,
                   sent |-> <<traffic_pattern.pattern_type>>]

\* handle_start_matching: the next state, the new index, what is sent to the
\* generator thread (the pattern_type of SendPattern); indexing an empty list panics
handle_start_matching(traffic_pattern_list, traffic_pattern_index) ==
    IF traffic_pattern_list = << >>
    THEN [panic |-> TRUE, state |-> Plain("StartMatching"), index |-> traffic_pattern_index,
          sent |-> << >>]
    ELSE LET traffic_pattern == traffic_pattern_list[traffic_pattern_index + 1]
             index == (traffic_pattern_index + 1) % Len(traffic_pattern_list)
         IN  IF ~traffic_pattern.features_ok
             THEN [panic |-> FALSE, state |-> Plain("MatchingError"), index |-> index,
                   sent |-> << >>]
             ELSE [panic |-> FALSE,
                   state |-> MatcherState("MatchingCollectDci",
                                          TrafficCollection(0, traffic_pattern.pattern_type),
                                          0, "none"),
                   index |-> index,
                   sent |-> <<traffic_pattern.pattern_type>>]

\* handle_collect_dci: past finish_timestamp_ms or not, nof_dci DCIs indexed
handle_collect_dci(nof_dci, traffic_collection, finished) ==
    IF finished THEN MatcherState("MatchingProcessDci", traffic_collection, 0, "none")
    ELSE MatcherState("MatchingCollectDci",
                      TrafficCollection(Min(traffic_collection.cell_traffic + nof_dci,
                                            MaxCollected),
                                        traffic_collection.pattern_type), 0, "none")

\* handle_process_dci: find_best_matching_rnti returned Ok or Err
handle_process_dci(found) ==
    IF found THEN Plain("MatchingPublishRnti") ELSE Plain("MatchingError")

\* one iteration of the matcher's loop that does not end it by Stopped
Matcher_loop ==
    /\ rm_pc = "loop"
    /\ \E recv \in BOOLEAN, nof_dci \in 0 .. 1, finished \in BOOLEAN, found \in BOOLEAN :
        /\ recv => rm_rx < Len(rm_app_bus) /\ rm_app_bus[rm_rx + 1] # "Stopped"
        /\ ~recv => (rm_rx = Len(rm_app_bus) /\ rm_main_pc # "returned" /\ nof_dci = 0)
        /\ LET msg == IF recv THEN rm_app_bus[rm_rx + 1] ELSE "none"
               state == IF msg = "UeConnectionReset" THEN Plain("StartMatching")
                        ELSE rm_matcher_state
               start == handle_start_matching(rm_patterns, rm_traffic_pattern_index)
               idle == rm_scenario = "TrackCellDciOnly"
               starts == ~idle /\ state.kind = "StartMatching"
           IN  /\ starts => rm_nof_rounds < MaxRounds
               /\ state.kind # "MatchingCollectDci" => ~finished
               /\ state.kind # "MatchingProcessDci" => found
               /\ rm_rx' = IF recv THEN rm_rx + 1 ELSE rm_rx
               /\ rm_nof_rounds' = IF starts THEN rm_nof_rounds + 1 ELSE rm_nof_rounds
               /\ rm_pc' = IF starts /\ start.panic THEN "panic" ELSE "loop"
               /\ rm_traffic_pattern_index' = IF starts THEN start.index
                                              ELSE rm_traffic_pattern_index
               /\ rm_gen' = IF starts THEN rm_gen \o start.sent
                            ELSE IF ~idle /\ state.kind = "MatchingError"
                            THEN Append(rm_gen, "Idle")
                            ELSE rm_gen
               /\ rm_matcher_state' =
                     IF idle THEN state
                     ELSE CASE state.kind = "Idle" -> state
                            [] state.kind = "StartMatching" -> start.state
                            [] state.kind = "MatchingCollectDci" ->
                                   handle_collect_dci(nof_dci, state.tc, finished)
                            [] state.kind = "MatchingProcessDci" -> handle_process_dci(found)
                            [] state.kind = "MatchingPublishRnti" ->
                                   MatcherSleepMs(MATCHING_INTERVAL_MS, "StartMatching")
                            [] state.kind = "MatchingError" ->
                                   MatcherSleepMs(MATCHING_INTERVAL_MS, "StartMatching")
                            [] state.kind = "SleepMs" -> Plain(state.next)
                            [] OTHER -> state
    /\ UNCHANGED <<rm_scenario, rm_patterns, rm_sigint, rm_app_state, rm_main_pc, rm_ng_open,
                   rm_ng_chan, rm_nof_reports, rm_app_bus>>
    /\ UNCHANGED notRm

\* an iteration whose check_not_stopped finds Stopped, or the bus
\* disconnected after main returned: break
Matcher_break ==
    /\ rm_pc = "loop"
    /\ IF rm_rx < Len(rm_app_bus)
       THEN rm_app_bus[rm_rx + 1] = "Stopped" /\ rm_rx' = rm_rx + 1
       ELSE rm_main_pc = "returned" /\ UNCHANGED rm_rx
    /\ rm_pc' = "done"
    /\ UNCHANGED <<rm_scenario, rm_patterns, rm_sigint, rm_app_state, rm_main_pc, rm_ng_open,
                   rm_ng_chan, rm_nof_reports, rm_app_bus, rm_matcher_state,
                   rm_traffic_pattern_index, rm_gen, rm_nof_rounds>>
    /\ UNCHANGED notRm

NextRm ==
    \/ NgControl_report
    \/ NgControl_finish
    \/ Rm_sigint
    \/ Rm_main_loop
    \/ Matcher_loop
    \/ Matcher_break

SpecRm == InitRm /\ [][NextRm]_vars

(***************************************************************************)
(* C30 as claimed: each SuccessfulTriggerResponse reported by NgControl    *)
(* makes the supervisor broadcast UeConnectionReset once, and an           *)
(* RntiMatcher that observes UeConnectionReset switches to StartMatching   *)
(* from whatever state it is in and begins a new round with an empty       *)
(* TrafficCollection and the next pattern of the list; before the first    *)
(* UeConnectionReset the matcher stays Idle and triggers no probe pattern. *)
(***************************************************************************)
RECURSIVE CountOf(_, _)
CountOf(q, x) ==
    IF q = << >> THEN 0 ELSE (IF Head(q) = x THEN 1 ELSE 0) + CountOf(Tail(q), x)

\* the matcher takes a UeConnectionReset from the bus in this step
ObservesReset ==
    /\ rm_rx' = rm_rx + 1
    /\ rm_app_bus[rm_rx'] = "UeConnectionReset"

\* the pattern whose turn it is: the rounds go through the list in order
NextPattern == rm_patterns[(rm_nof_rounds % Len(rm_patterns)) + 1]

\* the step begins a round: empty collection, the next pattern, sent to the generator
BeginsRound ==
    /\ rm_patterns # << >>
    /\ rm_nof_rounds' = rm_nof_rounds + 1
    /\ rm_matcher_state' = MatcherState("MatchingCollectDci",
                                        TrafficCollection(0, NextPattern.pattern_type),
                                        0, "none")
    /\ rm_gen' = Append(rm_gen, NextPattern.pattern_type)

\* every report taken from the channel has been broadcast once
C30_ReportsBroadcast ==
    CountOf(rm_app_bus, "UeConnectionReset") + CountOf(rm_ng_chan, "SuccessfulTriggerResponse")
        = rm_nof_reports

\* before the first reset is observed: Idle, nothing sent to the generator
C30_IdleBeforeReset ==
    CountOf(SubSeq(rm_app_bus, 1, rm_rx), "UeConnectionReset") = 0 =>
        /\ rm_matcher_state = Plain("Idle")
        /\ rm_gen = << >>
        /\ rm_nof_rounds = 0

C30_ClaimedStep == ObservesReset => BeginsRound

C30_ResetStartsRound ==
    [](C30_ReportsBroadcast /\ C30_IdleBeforeReset) /\ [][C30_ClaimedStep]_vars

(***************************************************************************)
(* C30 amended: each SuccessfulTriggerResponse the supervisor takes from   *)
(* NgControl's channel while Running makes it broadcast UeConnectionReset  *)
(* once (one taken after SIGINT is dropped), and nothing else does; an     *)
(* RntiMatcher that observes UeConnectionReset switches to StartMatching   *)
(* from whatever state it is in and, unless the scenario is                *)
(* TrackCellDciOnly or the features of the pattern cannot be generated or  *)
(* the list is empty, begins in the same iteration a new round with an     *)
(* empty TrafficCollection and the next pattern of the list; before the    *)
(* first UeConnectionReset it stays Idle and triggers no probe pattern.    *)
(***************************************************************************)
TakesReport ==
    /\ rm_ng_chan # << >>
    /\ Head(rm_ng_chan) = "SuccessfulTriggerResponse"
    /\ rm_ng_chan' = Tail(rm_ng_chan)

C30_SupervisorStep ==
    /\ (TakesReport /\ rm_app_state = "Running" /\ ~rm_sigint) =>
            rm_app_bus' = Append(rm_app_bus, "UeConnectionReset")
    /\ (TakesReport /\ ~(rm_app_state = "Running" /\ ~rm_sigint)) =>
            CountOf(rm_app_bus', "UeConnectionReset") = CountOf(rm_app_bus, "UeConnectionReset")
    /\ ~TakesReport =>
            CountOf(rm_app_bus', "UeConnectionReset") = CountOf(rm_app_bus, "UeConnectionReset")

C30_MatcherStep ==
    ObservesReset =>
        IF rm_scenario = "TrackCellDciOnly"
        THEN /\ rm_matcher_state' = Plain("StartMatching")
             /\ UNCHANGED <<rm_gen, rm_nof_rounds, rm_traffic_pattern_index>>
        ELSE IF rm_patterns = << >>
        THEN rm_pc' = "panic" /\ UNCHANGED rm_gen
        ELSE IF ~NextPattern.features_ok
        THEN /\ rm_matcher_state' = Plain("MatchingError")
             /\ rm_nof_rounds' = rm_nof_rounds + 1
             /\ UNCHANGED rm_gen
        ELSE BeginsRound

\* a round begins only in a state entered by a reset or by the sleep after a round
C30_RoundStep ==
    rm_nof_rounds' # rm_nof_rounds =>
        \/ ObservesReset
        \/ rm_matcher_state.kind = "StartMatching"

C30_ResetStartsRoundIfActive ==
    /\ []C30_IdleBeforeReset
    /\ [][C30_SupervisorStep /\ C30_MatcherStep /\ C30_RoundStep]_vars

\* the second reset observed while collecting: the second round has the
\* second pattern and an empty collection
C30_Witness ==
    /\ rm_rx = 2
    /\ rm_app_bus = <<"UeConnectionReset", "UeConnectionReset">>
    /\ rm_nof_rounds = 2
    /\ Len(rm_patterns) = 2
    /\ rm_gen = <<"A", "B">>
    /\ rm_matcher_state = MatcherState("MatchingCollectDci", TrafficCollection(0, "B"),
                                       0, "none")

\* a reset observed in the idle scenario: StartMatching, and no round
C30_WitnessIdleScenario ==
    /\ rm_scenario = "TrackCellDciOnly"
    /\ rm_rx >= 1
    /\ rm_matcher_state = Plain("StartMatching")
    /\ rm_nof_rounds = 0

\* a report taken after SIGINT and never broadcast
C30_WitnessDropped ==
    /\ rm_nof_reports = 1
    /\ rm_ng_chan = << >>
    /\ CountOf(rm_app_bus, "UeConnectionReset") = 0

(***************************************************************************)
(* SpecMr: the rounds of the RNTI matcher with the clock and the DCIs of   *)
(* the bus (rnti_matcher.rs 230-408, 644-680), in a scenario that matches  *)
(***************************************************************************)
TIME_MS_TO_US_FACTOR == 1000
NGSCOPE_MAX_NOF_RNTI == 20

\* MATCHING_TRAFFIC_PATTERN_TIME_OVERLAP_FACTOR = 1.1 as <<numerator, denominator>>
MATCHING_TRAFFIC_PATTERN_TIME_OVERLAP_FACTOR == <<11, 10>>

MaxMrRounds == 2
MaxMrNow == 40000
MaxMrDci == 2
MrStartMs == 1000

\* what the clock may advance by from one iteration of the loop to the next
MrTimeSteps == {5000, 6001}

\* (MATCHING_TRAFFIC_PATTERN_TIME_OVERLAP_FACTOR * pattern_total_ms as f64) as u64
\* without truncation, in tenths of a millisecond
overlap_time_tenth_ms(pattern_total_ms) ==
    MATCHING_TRAFFIC_PATTERN_TIME_OVERLAP_FACTOR[1] * pattern_total_ms

overlap_time_ms_mut(pattern_total_ms) ==
    (overlap_time_tenth_ms(pattern_total_ms)
        + MATCHING_TRAFFIC_PATTERN_TIME_OVERLAP_FACTOR[2] - 1)
        \div MATCHING_TRAFFIC_PATTERN_TIME_OVERLAP_FACTOR[2]

\* the f64 nearest to 1.1 is above 1.1 by less than 1e-16, so the product is
\* above 1.1 * total by less than a tenth for every u64 sum of u16 times, and
\* `as u64` truncates it
overlap_time_ms(pattern_total_ms) ==
    overlap_time_tenth_ms(pattern_total_ms)
        \div MATCHING_TRAFFIC_PATTERN_TIME_OVERLAP_FACTOR[2]

\* a TrafficPattern: total_time_ms() of pattern_a is 10000 * 1 + 1 and of
\* pattern_g 2000 * 5; the features are those of one of the MatchPatterns
MrPattern(pattern_type, total_time_ms, features_ok) ==
    [pattern_type |-> pattern_type, total_time_ms |-> total_time_ms,
     features_ok |-> features_ok,
     std_vec |-> [i \in 1 .. 8 |-> <<0, 1>>],
     std_feature_vec |->
         generate_standardized_feature_vec(UeTraffic(<<1, 1>>),
                                           [i \in 1 .. 8 |-> <<0, 1>>]).value,
     total_ul_bytes |-> 250, nof_packets |-> 25]

MrPatterns ==
    {MrPattern(p[1], p[2], p[3]) :
        p \in {<<"A", 10001, TRUE>>, <<"G", 10000, TRUE>>, <<"A", 10001, FALSE>>}}

\* TrafficCollection with its time stamps
TimedCollection(cell_traffic, start_timestamp_ms, finish_timestamp_ms) ==
    [cell_traffic |-> cell_traffic, start_timestamp_ms |-> start_timestamp_ms,
     finish_timestamp_ms |-> finish_timestamp_ms]

\* NgScopeCellDci: rnti_list holds the entries the sender filled in
MrCellDci(cell_id, time_stamp, nof_rnti, rnti_list) ==
    [cell_id |-> cell_id, time_stamp |-> time_stamp, nof_rnti |-> nof_rnti,
     rnti_list |-> rnti_list]

MrRntiDci(rnti, ul_tbs_bit) == [rnti |-> rnti, ul_tbs_bit |-> ul_tbs_bit]

\* the DCIs one iteration may drain: of RNTI 10 or 11 in cell 1, without
\* RNTIs in cell 2, or with nof_rnti above the length of rnti_list; stamped
\* just before the start of the round, at it or after it
MrDcis(start_timestamp_ms) ==
    LET bound == start_timestamp_ms * TIME_MS_TO_US_FACTOR
    IN  {MrCellDci(1, t, 1, <<MrRntiDci(r, 8)>>) : t \in {bound - 1, bound, bound + 1},
                                                   r \in {10, 11}}
        \cup {MrCellDci(2, t, 0, << >>) : t \in {bound - 1, bound}}
        \cup {MrCellDci(1, bound, NGSCOPE_MAX_NOF_RNTI + 1, <<MrRntiDci(10, 8)>>)}

MrDciLists(start_timestamp_ms) ==
    {<< >>} \cup {<<d>> : d \in MrDcis(start_timestamp_ms)}

CellTrafficCollection_default ==
    [traffic |-> << >>, nof_total_dci |-> 0, nof_empty_dci |-> 0,
     first_dci_timestamp_us |-> 0, last_dci_timestamp_us |-> 0]

InitMr ==
    /\ MrOthersIdle
    /\ mr_pattern \in MrPatterns
    /\ mr_now_ms = MrStartMs
    /\ mr_pc = "loop"
    /\ mr_matcher_state = Plain("StartMatching")
    /\ mr_tx_rnti = << >>
    /\ mr_gen = << >>
    /\ mr_latest_dcis = << >>
    /\ mr_nof_rounds = 0
    /\ mr_result = NotCalled

\* handle_start_matching with the clock; the pattern list has one entry
mr_handle_start_matching(traffic_pattern, now_ms) ==
    LET pattern_total_ms == traffic_pattern.total_time_ms
        start_timestamp_ms == now_ms
        finish_timestamp_ms == start_timestamp_ms + overlap_time_ms(pattern_total_ms)
    IN  IF ~traffic_pattern.features_ok
        THEN [state |-> Plain("MatchingError"), gen |-> << >>, result |-> Err]
        ELSE [state |-> MatcherState("MatchingCollectDci",
                                     TimedCollection(<< >>, start_timestamp_ms,
                                                     finish_timestamp_ms), 0, "none"),
              gen |-> <<"SendPattern">>, result |-> Ok(0)]

\* the body of the loop of update_from_cell_dci for entry i
update_entry(traffic, rnti_dci, time_stamp) ==
    LET ue == IF rnti_dci.rnti \in DOMAIN traffic THEN traffic[rnti_dci.rnti].traffic
              ELSE << >>
        old == IF time_stamp \in DOMAIN ue THEN ue[time_stamp] ELSE 0
        new_ue == [t \in DOMAIN ue \cup {time_stamp} |->
                      IF t = time_stamp THEN old + rnti_dci.ul_tbs_bit \div 8 ELSE ue[t]]
    IN  [r \in DOMAIN traffic \cup {rnti_dci.rnti} |->
            IF r = rnti_dci.rnti THEN UeTraffic(new_ue) ELSE traffic[r]]

RECURSIVE update_entries(_, _, _, _)
update_entries(traffic, rnti_list, nof_rnti, time_stamp) ==
    IF nof_rnti = 0 THEN traffic
    ELSE update_entry(update_entries(traffic, rnti_list, nof_rnti - 1, time_stamp),
                      rnti_list[nof_rnti], time_stamp)

\* TrafficCollection::update_from_cell_dci: rnti_list[i] panics for an index
\* of NGSCOPE_MAX_NOF_RNTI or more
update_from_cell_dci(cell_traffic, cell_dci) ==
    LET cell_id == cell_dci.cell_id
        old == IF cell_id \in DOMAIN cell_traffic THEN cell_traffic[cell_id]
               ELSE CellTrafficCollection_default
        first == IF old.first_dci_timestamp_us = 0 THEN cell_dci.time_stamp
                 ELSE old.first_dci_timestamp_us
        last == IF old.first_dci_timestamp_us = 0 THEN cell_dci.time_stamp
                ELSE old.last_dci_timestamp_us
        new == [traffic |-> update_entries(old.traffic, cell_dci.rnti_list,
                                           cell_dci.nof_rnti, cell_dci.time_stamp),
                nof_total_dci |-> old.nof_total_dci + 1,
                nof_empty_dci |-> old.nof_empty_dci
                                      + (IF cell_dci.nof_rnti = 0 THEN 1 ELSE 0),
                first_dci_timestamp_us |-> first,
                last_dci_timestamp_us |-> Max(last, cell_dci.time_stamp)]
    IN  IF cell_dci.nof_rnti > NGSCOPE_MAX_NOF_RNTI THEN Panic
        ELSE Ok([c \in DOMAIN cell_traffic \cup {cell_id} |->
                    IF c = cell_id THEN new ELSE cell_traffic[c]])

RECURSIVE update_from_dci_list(_, _, _)
update_from_dci_list(cell_traffic, dci_list, start_timestamp_ms_bound) ==
    IF dci_list = << >> THEN Ok(cell_traffic)
    ELSE IF Head(dci_list).time_stamp >= start_timestamp_ms_bound
    THEN LET updated == update_from_cell_dci(cell_traffic, Head(dci_list))
         IN  IF updated.kind = "panic" THEN Panic
             ELSE update_from_dci_list(updated.value, Tail(dci_list),
                                       start_timestamp_ms_bound)
    ELSE update_from_dci_list(cell_traffic, Tail(dci_list), start_timestamp_ms_bound)

\* handle_collect_dci with the clock and the DCIs of this iteration
mr_handle_collect_dci(dci_list, traffic_collection, now_ms) ==
    LET start_timestamp_ms_bound ==
            traffic_collection.start_timestamp_ms * TIME_MS_TO_US_FACTOR
        updated == update_from_dci_list(traffic_collection.cell_traffic, dci_list,
                                        start_timestamp_ms_bound)
    IN  IF now_ms >= traffic_collection.finish_timestamp_ms
        THEN Ok(MatcherState("MatchingProcessDci", traffic_collection, 0, "none"))
        ELSE IF updated.kind = "panic" THEN Panic
        ELSE Ok(MatcherState("MatchingCollectDci",
                             [traffic_collection EXCEPT !.cell_traffic = updated.value],
                             0, "none"))

\* the orders of the RNTIs of every cell
MrRntiOrders(cell_traffic) ==
    {f \in [DOMAIN cell_traffic ->
               UNION {Orders(DOMAIN cell_traffic[c].traffic) : c \in DOMAIN cell_traffic}] :
        \A c \in DOMAIN cell_traffic : f[c] \in Orders(DOMAIN cell_traffic[c].traffic)}

\* handle_process_dci, the match on the result of find_best_matching_rnti
process_dci_state(best_matches) ==
    [result |-> best_matches,
     state |-> IF best_matches.kind = "Ok" THEN Plain("MatchingPublishRnti")
               ELSE Plain("MatchingError")]

\* handle_process_dci: the filter, then the distances; one result for every
\* order the two levels of HashMap may iterate in; the message holds what the
\* ring buffer of the last rounds says, which is not looked at here
mr_handle_process_dci(traffic_collection, pattern) ==
    LET filtered == apply_basic_filter(traffic_collection.cell_traffic, pattern).cell_traffic
    IN  {process_dci_state(find_best_matching_rnti(filtered, pattern, cell_order,
                                                   rnti_orders)) :
            cell_order \in Orders(DOMAIN filtered), rnti_orders \in MrRntiOrders(filtered)}

\* handle_matching_error for the two error types the loop produces
mr_handle_matching_error ==
    [state |-> MatcherSleepMs(MATCHING_INTERVAL_MS, "StartMatching"), gen |-> <<"Idle">>]

\* one iteration of the loop of run: app_msg is what check_not_stopped
\* reads, dci_list what collect_dcis returns
Mr_loop ==
    /\ mr_pc = "loop"
    /\ \E step \in MrTimeSteps, app_msg \in {"none", "UeConnectionReset"} :
         LET now_ms == mr_now_ms + step
             state == IF app_msg = "UeConnectionReset" THEN Plain("StartMatching")
                      ELSE mr_matcher_state
             start_ms == IF state.kind = "MatchingCollectDci"
                         THEN state.tc.start_timestamp_ms ELSE now_ms
         IN  /\ now_ms <= MaxMrNow
             /\ \E dci_list \in MrDciLists(start_ms) :
                  /\ mr_latest_dcis' = dci_list
                  /\ CASE state.kind = "StartMatching" ->
                            LET r == mr_handle_start_matching(mr_pattern, now_ms)
                            IN  /\ mr_nof_rounds < MaxMrRounds
                                /\ dci_list = << >>
                                /\ mr_matcher_state' = r.state
                                /\ mr_gen' = mr_gen \o r.gen
                                /\ mr_result' = r.result
                                /\ mr_nof_rounds' = mr_nof_rounds + 1
                                /\ mr_now_ms' = now_ms
                                /\ UNCHANGED <<mr_pc, mr_tx_rnti>>
                       [] state.kind = "MatchingCollectDci" ->
                            LET r == mr_handle_collect_dci(dci_list, state.tc, now_ms)
                                nof_dci ==
                                    SumOver(DOMAIN state.tc.cell_traffic,
                                            [c \in DOMAIN state.tc.cell_traffic |->
                                                state.tc.cell_traffic[c].nof_total_dci])
                            IN  /\ nof_dci >= MaxMrDci => dci_list = << >>
                                /\ mr_now_ms' = now_ms
                                /\ IF r.kind = "panic"
                                   THEN /\ mr_pc' = "panic"
                                        /\ mr_matcher_state' = state
                                   ELSE /\ mr_pc' = mr_pc
                                        /\ mr_matcher_state' = r.value
                                /\ UNCHANGED <<mr_gen, mr_result, mr_nof_rounds, mr_tx_rnti>>
                       [] state.kind = "MatchingProcessDci" ->
                            /\ dci_list = << >>
                            /\ mr_now_ms' = now_ms
                            /\ \E r \in mr_handle_process_dci(state.tc, mr_pattern) :
                                  /\ mr_result' = r.result
                                  /\ IF r.result.kind = "panic"
                                     THEN /\ mr_pc' = "panic"
                                          /\ mr_matcher_state' = state
                                     ELSE /\ mr_pc' = mr_pc
                                          /\ mr_matcher_state' = r.state
                            /\ UNCHANGED <<mr_gen, mr_nof_rounds, mr_tx_rnti>>
                       [] state.kind = "MatchingPublishRnti" ->
                            /\ dci_list = << >>
                            /\ mr_now_ms' = now_ms
                            /\ mr_tx_rnti' = Append(mr_tx_rnti, mr_nof_rounds)
                            /\ mr_matcher_state' =
                                   MatcherSleepMs(MATCHING_INTERVAL_MS, "StartMatching")
                            /\ UNCHANGED <<mr_pc, mr_gen, mr_result, mr_nof_rounds>>
                       [] state.kind = "MatchingError" ->
                            /\ dci_list = << >>
                            /\ mr_now_ms' = now_ms
                            /\ mr_matcher_state' = mr_handle_matching_error.state
                            /\ mr_gen' = mr_gen \o mr_handle_matching_error.gen
                            /\ UNCHANGED <<mr_pc, mr_result, mr_nof_rounds, mr_tx_rnti>>
                       [] state.kind = "SleepMs" ->
                            /\ dci_list = << >>
                            /\ now_ms + state.time_ms <= MaxMrNow
                            /\ mr_now_ms' = now_ms + state.time_ms
                            /\ mr_matcher_state' = Plain(state.next)
                            /\ UNCHANGED <<mr_pc, mr_gen, mr_result, mr_nof_rounds,
                                           mr_tx_rnti>>
    /\ UNCHANGED <<mr_pattern>>
    /\ UNCHANGED notMr

\* check_not_stopped returns Err: the loop breaks and finish runs
Mr_break ==
    /\ mr_pc = "loop"
    /\ mr_pc' = "done"
    /\ UNCHANGED <<mr_pattern, mr_now_ms, mr_matcher_state, mr_tx_rnti, mr_gen,
                   mr_latest_dcis, mr_nof_rounds, mr_result>>
    /\ UNCHANGED notMr

NextMr ==
    \/ Mr_loop
    \/ Mr_break

SpecMr == InitMr /\ [][NextMr]_vars

(***************************************************************************)
(* C31: while collecting, the collection holds only DCIs stamped at or     *)
(* after start_ms * 1000, every such DCI drained before finish_ms is       *)
(* indexed, and the matcher moves to MatchingProcessDci at the first tick  *)
(* with the clock at or after finish_ms = start_ms + 1.1 * total_time_ms,  *)
(* never earlier.                                                          *)
(***************************************************************************)
\* the time stamps a collection indexes
IndexedStamps(tc) ==
    UNION {UNION {DOMAIN tc.cell_traffic[c].traffic[r].traffic :
                     r \in DOMAIN tc.cell_traffic[c].traffic} :
              c \in DOMAIN tc.cell_traffic}
        \cup {tc.cell_traffic[c].first_dci_timestamp_us : c \in DOMAIN tc.cell_traffic}
        \cup {tc.cell_traffic[c].last_dci_timestamp_us : c \in DOMAIN tc.cell_traffic}

Indexed(dci, tc) ==
    /\ dci.cell_id \in DOMAIN tc.cell_traffic
    /\ tc.cell_traffic[dci.cell_id].nof_total_dci >= 1
    /\ tc.cell_traffic[dci.cell_id].last_dci_timestamp_us >= dci.time_stamp
    /\ \A i \in 1 .. dci.nof_rnti :
          /\ i <= Len(dci.rnti_list)
          /\ dci.rnti_list[i].rnti \in DOMAIN tc.cell_traffic[dci.cell_id].traffic
          /\ dci.time_stamp \in
                 DOMAIN tc.cell_traffic[dci.cell_id].traffic[dci.rnti_list[i].rnti].traffic

C31_OnlyRecent ==
    mr_matcher_state.kind \in {"MatchingCollectDci", "MatchingProcessDci"} =>
        \A t \in IndexedStamps(mr_matcher_state.tc) :
            t >= mr_matcher_state.tc.start_timestamp_ms * TIME_MS_TO_US_FACTOR

\* an iteration that ran handle_collect_dci
CollectTick ==
    /\ mr_pc = "loop"
    /\ mr_matcher_state.kind = "MatchingCollectDci"
    /\ mr_now_ms' # mr_now_ms
    /\ mr_nof_rounds' = mr_nof_rounds

\* the clock of the tick is at or after start_ms + 1.1 * total_time_ms
AtClaimedFinish ==
    mr_now_ms' * MATCHING_TRAFFIC_PATTERN_TIME_OVERLAP_FACTOR[2] >=
        mr_matcher_state.tc.start_timestamp_ms
                * MATCHING_TRAFFIC_PATTERN_TIME_OVERLAP_FACTOR[2]
            + overlap_time_tenth_ms(mr_pattern.total_time_ms)

DrainedIndexed ==
    \A i \in 1 .. Len(mr_latest_dcis') :
        mr_latest_dcis'[i].time_stamp >=
                mr_matcher_state.tc.start_timestamp_ms * TIME_MS_TO_US_FACTOR
            => /\ mr_pc' = "loop"
               /\ Indexed(mr_latest_dcis'[i], mr_matcher_state'.tc)

C31_ClaimedStep ==
    CollectTick =>
        IF AtClaimedFinish
        THEN mr_pc' = "loop" /\ mr_matcher_state'.kind = "MatchingProcessDci"
        ELSE /\ DrainedIndexed
             /\ mr_matcher_state'.kind = "MatchingCollectDci"

C31_CollectUntilFinish == []C31_OnlyRecent /\ [][C31_ClaimedStep]_vars

\* what holds: finish_timestamp_ms is start_ms plus the truncated product,
\* and a DCI with nof_rnti above NGSCOPE_MAX_NOF_RNTI ends the thread
C31_CodedStep ==
    CollectTick =>
        IF mr_now_ms' >= mr_matcher_state.tc.start_timestamp_ms
                            + overlap_time_ms(mr_pattern.total_time_ms)
        THEN /\ mr_pc' = "loop"
             /\ mr_matcher_state' =
                    MatcherState("MatchingProcessDci", mr_matcher_state.tc, 0, "none")
        ELSE \/ /\ DrainedIndexed
                /\ mr_matcher_state'.kind = "MatchingCollectDci"
             \/ /\ mr_pc' = "panic"
                /\ \E i \in 1 .. Len(mr_latest_dcis') :
                      mr_latest_dcis'[i].nof_rnti > NGSCOPE_MAX_NOF_RNTI

C31_CollectUntilTruncatedFinish == []C31_OnlyRecent /\ [][C31_CodedStep]_vars

\* the tick at start_ms + 11001 of pattern A ends collecting
C31_EarlyStep ==
    CollectTick /\ ~AtClaimedFinish => mr_matcher_state'.kind # "MatchingProcessDci"

C31_NeverEarly == [][C31_EarlyStep]_vars

\* a DCI stamped at the start of the round is drained and the thread is gone
C31_LostStep == CollectTick /\ ~AtClaimedFinish => mr_pc' = "loop"

C31_NeverLost == [][C31_LostStep]_vars

(***************************************************************************)
(* C32: a matching round that fails (no pattern features, or no best       *)
(* matching RNTI) puts the matcher in MatchingError, publishes no          *)
(* MessageRnti for that round and, after a sleep of one second, is         *)
(* followed by StartMatching.                                              *)
(***************************************************************************)
\* an iteration without a reset that ran the arm of the given state
TickIn(kind) ==
    /\ mr_pc = "loop"
    /\ mr_matcher_state.kind = kind
    /\ mr_now_ms' # mr_now_ms
    /\ mr_nof_rounds' = mr_nof_rounds

RoundBegins == mr_nof_rounds' = mr_nof_rounds + 1

\* the round fails in this step
RoundFails ==
    /\ RoundBegins \/ TickIn("MatchingProcessDci")
    /\ mr_result'.kind # "Ok"

ErrorThenSleep ==
    /\ TickIn("MatchingError") =>
          /\ mr_matcher_state' = MatcherSleepMs(MATCHING_INTERVAL_MS, "StartMatching")
          /\ mr_tx_rnti' = mr_tx_rnti
    /\ TickIn("SleepMs") =>
          /\ mr_matcher_state' = Plain(mr_matcher_state.next)
          /\ mr_now_ms' >= mr_now_ms + mr_matcher_state.time_ms
          /\ mr_tx_rnti' = mr_tx_rnti

\* no MessageRnti of a round that failed
C32_NothingPublished ==
    mr_result.kind \notin {"Ok", "not_called"} =>
        \A i \in 1 .. Len(mr_tx_rnti) : mr_tx_rnti[i] # mr_nof_rounds

C32_ClaimedStep ==
    /\ RoundFails => mr_pc' = "loop" /\ mr_matcher_state' = Plain("MatchingError")
    /\ ErrorThenSleep

C32_FailedRoundRecovers == []C32_NothingPublished /\ [][C32_ClaimedStep]_vars

\* what holds: a round that fails with Err goes that way, and a cell
\* without RNTIs ends the thread in first().unwrap()
C32_CodedStep ==
    /\ RoundFails =>
          \/ /\ mr_result'.kind = "Err"
             /\ mr_pc' = "loop"
             /\ mr_matcher_state' = Plain("MatchingError")
          \/ /\ mr_result'.kind = "panic"
             /\ mr_pc' = "panic"
             /\ \E c \in DOMAIN mr_matcher_state.tc.cell_traffic :
                   mr_matcher_state.tc.cell_traffic[c].traffic = << >>
    /\ ErrorThenSleep

C32_ErrRoundRecovers == []C32_NothingPublished /\ [][C32_CodedStep]_vars

\* both ways of failing with Err are reached, and a round is published
C32_ReachedFeatures ==
    /\ mr_matcher_state = Plain("StartMatching")
    /\ ~mr_pattern.features_ok
    /\ mr_gen = <<"Idle">>

C32_ReachedNoMatch ==
    /\ mr_matcher_state = Plain("StartMatching")
    /\ mr_pattern.features_ok
    /\ mr_gen = <<"SendPattern", "Idle">>
    /\ mr_tx_rnti = << >>

C32_ReachedPublished == mr_tx_rnti = <<1>>

(***************************************************************************)
(* SpecTg: the traffic generator thread (rnti_matcher.rs 450-604)          *)
(***************************************************************************)
MaxTgMessages == 2
MaxTgPatterns == 2
MaxTgNow == 9000

\* time_ms of the messages of a pattern: the incremental patterns send every
\* 1, 5 or 10 ms; the queue holds the last messages of a pattern
TgTimesMs == {1, 5}

TgPatterns == UNION {[1 .. n -> TgTimesMs] : n \in 1 .. MaxTgMessages}

\* the time between two readings of the clock that is not slept
TgDelaysUs == {0, 400, 1500}

\* how much longer than asked thread::sleep may take
TgOversleepUs == {0, 100}

\* thread::sleep(Duration::from_millis(DEFAULT_WORKER_SLEEP_MS)) of gen_handle_idle
IdleSleepUs == 2 * TIME_MS_TO_US_FACTOR

TgGenState(kind, messages) == [kind |-> kind, messages |-> messages]

TgSleep(time_ms, delta, sleep_us) ==
    [kind |-> "Some", time_ms |-> time_ms, delta |-> delta, sleep_us |-> sleep_us]

InitTg ==
    /\ TgOthersIdle
    /\ tg_state = TgGenState("Idle", << >>)
    /\ tg_last_timemstamp_us = None
    /\ tg_now_us = 0
    /\ tg_pc = "loop"
    /\ tg_sleep = None
    /\ tg_nof_patterns = 0

sleep_us_of_mut(time_ms, last_sent_timemstamp_us, now_us) ==
    LET interval == time_ms * TIME_MS_TO_US_FACTOR
        delta == now_us - last_sent_timemstamp_us.value
    IN  IF last_sent_timemstamp_us.kind = "Some"
        THEN IF delta > interval THEN Max(0, interval - (delta - interval))
             ELSE interval - delta
        ELSE interval

\* sleep_us of gen_handle_send_pattern
sleep_us_of(time_ms, last_sent_timemstamp_us, now_us) ==
    LET interval == time_ms * TIME_MS_TO_US_FACTOR
        delta == now_us - last_sent_timemstamp_us.value
    IN  IF last_sent_timemstamp_us.kind = "Some"
        THEN IF delta > interval THEN interval
             ELSE interval - delta
        ELSE interval

\* gen_handle_send_pattern for a queue with a front message: the sleep, the
\* new time stamp and whether send_to succeeded
gen_handle_send_pattern(messages, last_sent_timemstamp_us, now_us, oversleep_us, send_ok) ==
    LET msg == Head(messages)
        sleep_us == sleep_us_of(msg, last_sent_timemstamp_us, now_us)
        delta == IF last_sent_timemstamp_us.kind = "Some"
                 THEN Some(now_us - last_sent_timemstamp_us.value) ELSE None
    IN  [messages |-> Tail(messages),
         sleep |-> TgSleep(msg, delta, sleep_us),
         last_sent_timemstamp_us |-> Some(now_us + sleep_us + oversleep_us),
         result |-> IF send_ok THEN Ok(0) ELSE Err]

\* one iteration of the loop of run_traffic_generator: rx is what
\* check_rx_state reads, metric whether check_rx_metric has a metric
Tg_loop ==
    /\ tg_pc = "loop"
    /\ \E rx \in {TgGenState("none", << >>), TgGenState("Idle", << >>),
                  TgGenState("Stop", << >>)}
                     \cup {TgGenState("SendPattern", p) : p \in TgPatterns},
          metric \in BOOLEAN, send_ok \in BOOLEAN,
          delay \in TgDelaysUs, oversleep_us \in TgOversleepUs :
         LET gen_state_now == IF rx.kind = "none" THEN tg_state ELSE rx
             now_us == tg_now_us + delay
         IN  /\ rx.kind = "SendPattern" => tg_nof_patterns < MaxTgPatterns
             /\ tg_nof_patterns' = tg_nof_patterns
                                       + (IF rx.kind = "SendPattern" THEN 1 ELSE 0)
             /\ CASE gen_state_now.kind = "Idle" ->
                       /\ oversleep_us = 0 /\ delay = 0
                       /\ IF metric THEN tg_now_us' = tg_now_us
                          ELSE /\ tg_now_us + IdleSleepUs <= MaxTgNow
                               /\ tg_now_us' = tg_now_us + IdleSleepUs
                       /\ tg_pc' = IF metric /\ ~send_ok THEN "done" ELSE tg_pc
                       /\ tg_state' = gen_state_now
                       /\ UNCHANGED <<tg_last_timemstamp_us, tg_sleep>>
                  [] gen_state_now.kind = "Stop" ->
                       /\ delay = 0 /\ oversleep_us = 0 /\ ~metric /\ send_ok
                       /\ tg_pc' = "done"
                       /\ tg_state' = gen_state_now
                       /\ UNCHANGED <<tg_last_timemstamp_us, tg_sleep, tg_now_us>>
                  [] gen_state_now.kind = "SendPattern" ->
                       IF gen_state_now.messages = << >>
                       THEN /\ delay = 0 /\ oversleep_us = 0 /\ ~metric /\ send_ok
                            /\ tg_state' = TgGenState("PatternSent", << >>)
                            /\ UNCHANGED <<tg_last_timemstamp_us, tg_sleep, tg_now_us,
                                           tg_pc>>
                       ELSE LET r == gen_handle_send_pattern(gen_state_now.messages,
                                                             tg_last_timemstamp_us, now_us,
                                                             oversleep_us, send_ok)
                            IN  /\ r.last_sent_timemstamp_us.value <= MaxTgNow
                                /\ tg_now_us' = r.last_sent_timemstamp_us.value
                                /\ tg_last_timemstamp_us' = r.last_sent_timemstamp_us
                                /\ tg_sleep' = r.sleep
                                /\ tg_state' = IF send_ok
                                               THEN TgGenState("SendPattern", r.messages)
                                               ELSE TgGenState("Stop", << >>)
                                /\ tg_pc' = tg_pc
                  [] gen_state_now.kind = "PatternSent" ->
                       /\ delay = 0 /\ oversleep_us = 0 /\ ~metric /\ send_ok
                       /\ tg_last_timemstamp_us' = None
                       /\ tg_state' = TgGenState("Idle", << >>)
                       /\ UNCHANGED <<tg_sleep, tg_now_us, tg_pc>>
    /\ UNCHANGED notTg

\* the sender of rx_local_gen_state or of rx_metric is gone
Tg_disconnected ==
    /\ tg_pc = "loop"
    /\ tg_pc' = "done"
    /\ UNCHANGED <<tg_state, tg_last_timemstamp_us, tg_now_us, tg_sleep, tg_nof_patterns>>
    /\ UNCHANGED notTg

NextTg ==
    \/ Tg_loop
    \/ Tg_disconnected

SpecTg == InitTg /\ [][NextTg]_vars

(***************************************************************************)
(* C33: while a pattern is sent, a packet that finds more time elapsed     *)
(* since the previous packet than its interval sleeps the interval less    *)
(* the excess, and one that finds less sleeps the interval less the        *)
(* elapsed time, so lateness does not accumulate.                          *)
(***************************************************************************)
\* a step of gen_handle_send_pattern that has a previous time stamp
PacedSend ==
    /\ tg_last_timemstamp_us.kind = "Some"
    /\ tg_last_timemstamp_us' # tg_last_timemstamp_us
    /\ tg_last_timemstamp_us'.kind = "Some"

IntervalUs == tg_sleep'.time_ms * TIME_MS_TO_US_FACTOR

C33_ClaimedStep ==
    PacedSend =>
        IF tg_sleep'.delta.value > IntervalUs
        THEN tg_sleep'.sleep_us = Max(0, IntervalUs - (tg_sleep'.delta.value - IntervalUs))
        ELSE tg_sleep'.sleep_us = IntervalUs - tg_sleep'.delta.value

C33_LatenessCompensated == [][C33_ClaimedStep]_vars

\* what holds: a late packet sleeps the whole interval once more
C33_CodedStep ==
    PacedSend =>
        /\ tg_sleep'.delta = Some(tg_last_timemstamp_us'.value - tg_sleep'.sleep_us
                                      - tg_last_timemstamp_us.value)
              \/ tg_sleep'.delta = Some(tg_last_timemstamp_us'.value - tg_sleep'.sleep_us
                                            - tg_last_timemstamp_us.value - 100)
        /\ IF tg_sleep'.delta.value > IntervalUs
           THEN tg_sleep'.sleep_us = IntervalUs
           ELSE tg_sleep'.sleep_us = IntervalUs - tg_sleep'.delta.value

C33_LatePacketSleepsInterval == [][C33_CodedStep]_vars

\* a packet found 1500 us after the previous one of a 1 ms interval slept 1000 us
C33_ReachedLate ==
    /\ tg_sleep.kind = "Some"
    /\ tg_sleep.time_ms = 1
    /\ tg_sleep.delta = Some(1500)
    /\ tg_sleep.sleep_us = 1000

C33_ReachedEarly ==
    /\ tg_sleep.kind = "Some"
    /\ tg_sleep.time_ms = 1
    /\ tg_sleep.delta = Some(400)
    /\ tg_sleep.sleep_us = 600

(***************************************************************************)
(* SpecDt: the downloader with the clock, the bytes read and the DCIs of   *)
(* the bus (downloader.rs 180-292, 311-455, 541-577), in the scenario      *)
(* PerformMeasurement                                                      *)
(***************************************************************************)
RESTART_TIMEOUT_US == 2000000
POST_DOWNLOAD_TIME_US == 2000000

MaxDtNow == 31000000
MaxDtDci == 2
MaxDtDownloads == 2
MaxDtBytes == 2

\* what the clock may advance by from one iteration of the loop to the next
DtTimeSteps == {1000000, 1000001}

\* DownloadStreamState: the fields the state machine and the counters use
DownloadStreamState(start_timestamp_us, finish_us, timedata, last_rtt_us,
                    dci_total_dl_bit, dci_total_dl_prb_with_tbs) ==
    [start_timestamp_us |-> start_timestamp_us,
     finish_timestamp_us |-> finish_us,
     timedata |-> timedata, last_rtt_us |-> last_rtt_us,
     dci_total_dl_bit |-> dci_total_dl_bit,
     dci_total_dl_prb_with_tbs |-> dci_total_dl_prb_with_tbs]

\* ..Default::default()
DownloadStreamState_default == DownloadStreamState(0, None, << >>, None, 0, 0)

\* a CellDci with one RNTI entry of 8 bit in 2 PRB
DtDci(time_stamp) ==
    [time_stamp |-> time_stamp, nof_rnti |-> 1,
     rnti_list |-> <<[dl_tbs_bit |-> 8, dl_prb |-> 2]>>]

\* the DCIs one iteration may find on the bus: stamped just before the
\* start of the download, after it, at its end and just after its end
DtDciLists(download) ==
    LET stamps == {download.start_timestamp_us - 1, download.start_timestamp_us + 1}
                      \cup (IF download.finish_timestamp_us.kind = "Some"
                            THEN {download.finish_timestamp_us.value,
                                  download.finish_timestamp_us.value + 1}
                            ELSE {})
    IN  {<< >>} \cup {<<DtDci(t)>> : t \in {s \in stamps : s >= 0}}

\* the outcomes of stream.read: a chunk has a size and may end with an RTT
DtRead(kind, chunk_size, rtt) == [kind |-> kind, chunk_size |-> chunk_size, rtt |-> rtt]

DtReads ==
    {DtRead("Ok", 0, FALSE), DtRead("Ok", 1, FALSE), DtRead("Ok", 1, TRUE),
     DtRead("WouldBlock", 0, FALSE), DtRead("ConnectionReset", 0, FALSE),
     DtRead("Other", 0, FALSE)}

InitDt ==
    /\ DtOthersIdle
    /\ dt_state = DlSleepMs(INITIAL_SLEEP_TIME_MS, "StartDownload")
    /\ dt_now_us = 0
    /\ dt_pc = "loop"
    /\ dt_download = DownloadStreamState_default
    /\ dt_received_bytes = 0
    /\ dt_read = None
    /\ dt_added = << >>
    /\ dt_params = None
    /\ dt_nof_downloads = 0
    /\ dt_latest_dcis = << >>

dci_is_collected_mut(state, download, time_stamp) ==
    /\ state.name \in {"Downloading", "PostDownload"}
    /\ time_stamp >= download.start_timestamp_us

\* the conditions of unpack_all_dci_messages around add_ngscope_dci
dci_is_collected(state, download, time_stamp) ==
    /\ state.name \in {"Downloading", "PostDownload"}
    /\ time_stamp >= download.start_timestamp_us
    /\ download.finish_timestamp_us.kind = "Some" =>
          ~(time_stamp > download.finish_timestamp_us.value)

\* DownloadStreamState::add_ngscope_dci without an RNTI
add_ngscope_dci(download, ngscope_dci) ==
    LET taken == SubSeq(ngscope_dci.rnti_list, 1,
                        Min(ngscope_dci.nof_rnti, Len(ngscope_dci.rnti_list)))
    IN  [download EXCEPT
            !.dci_total_dl_bit = @ + SeqSum([i \in 1 .. Len(taken) |-> taken[i].dl_tbs_bit]),
            !.dci_total_dl_prb_with_tbs =
                @ + SeqSum([i \in 1 .. Len(taken) |-> taken[i].dl_prb])]

RECURSIVE unpack_all_dci_messages(_, _, _)
unpack_all_dci_messages(dci_list, download, state) ==
    IF dci_list = << >> THEN download
    ELSE unpack_all_dci_messages(
             Tail(dci_list),
             IF dci_is_collected(state, download, Head(dci_list).time_stamp)
             THEN add_ngscope_dci(download, Head(dci_list))
             ELSE download,
             state)

DownloadFinishParameters(download, finish_us) ==
    Some([start_timestamp_us |-> download.start_timestamp_us,
          finish_timestamp_us |-> finish_us,
          total_download_bytes |-> SeqSum(download.timedata),
          dci_total_dl_bit |-> download.dci_total_dl_bit,
          dci_total_dl_prb_with_tbs |-> download.dci_total_dl_prb_with_tbs])

\* handle_downloading: the new state, current_download and the parameters
handle_downloading(download, read, now_us) ==
    LET rtt == IF read.rtt THEN Some(0) ELSE download.last_rtt_us
    IN  CASE read.kind = "Ok" /\ read.chunk_size = 0 ->
                [state |-> DlState("PostDownload"),
                 download |-> [download EXCEPT !.finish_timestamp_us = Some(now_us)],
                 params |-> None]
          [] read.kind = "Ok" /\ read.chunk_size > 0 ->
                [state |-> DlState("Downloading"),
                 download |->
                     [download EXCEPT
                         !.last_rtt_us = rtt,
                         !.timedata = IF rtt.kind = "Some" THEN Append(@, read.chunk_size)
                                      ELSE @],
                 params |-> None]
          [] read.kind = "WouldBlock" ->
                [state |-> IF /\ download.timedata = << >>
                              /\ now_us - download.start_timestamp_us > RESTART_TIMEOUT_US
                           THEN DlState("ErrorStartingDownload")
                           ELSE DlState("Downloading"),
                 download |-> download, params |-> None]
          [] read.kind = "ConnectionReset" ->
                [state |-> DlState("FinishDownload"), download |-> download,
                 params |-> DownloadFinishParameters(download, now_us)]
          [] OTHER ->
                [state |-> DlState("ErrorStartingDownload"), download |-> download,
                 params |-> None]

\* handle_post_download
handle_post_download(download, now_us) ==
    IF now_us < download.finish_timestamp_us.value + POST_DOWNLOAD_TIME_US
    THEN [state |-> DlState("PostDownload"), params |-> None]
    ELSE [state |-> DlState("FinishDownload"),
          params |-> DownloadFinishParameters(download, download.finish_timestamp_us.value)]

\* one iteration of the loop of run: the DCIs of the bus, then the arm of
\* the state
Dt_loop ==
    /\ dt_pc = "loop"
    /\ \E step \in DtTimeSteps, dci_list \in DtDciLists(dt_download), read \in DtReads,
          connected \in BOOLEAN :
         LET now_us == dt_now_us + step
             unpacked == unpack_all_dci_messages(dci_list, dt_download, dt_state)
             added == dt_added \o SelectSeq([i \in 1 .. Len(dci_list) |->
                                                 dci_list[i].time_stamp],
                                             LAMBDA t : dci_is_collected(dt_state, dt_download, t))
         IN  /\ now_us <= MaxDtNow
             /\ dt_latest_dcis' = dci_list
             /\ dt_state.name \notin {"Downloading", "PostDownload"} => dci_list = << >>
             /\ Len(dt_added) >= MaxDtDci => dci_list = << >>
             /\ dt_state.name # "Downloading" => read = DtRead("WouldBlock", 0, FALSE)
             /\ dt_state.name # "StartDownload" => connected
             /\ CASE dt_state.name = "SleepMs" ->
                       /\ now_us + dt_state.sleep_time_ms * TIME_MS_TO_US_FACTOR <= MaxDtNow
                       /\ dt_now_us' = now_us + dt_state.sleep_time_ms * TIME_MS_TO_US_FACTOR
                       /\ dt_state' = DlState(dt_state.next_state)
                       /\ UNCHANGED <<dt_download, dt_received_bytes, dt_read, dt_added,
                                      dt_params, dt_nof_downloads>>
                  [] dt_state.name = "StartDownload" ->
                       /\ dt_nof_downloads < MaxDtDownloads
                       /\ dt_now_us' = now_us
                       /\ dt_received_bytes' = 0
                       /\ dt_added' = << >>
                       /\ dt_read' = None
                       /\ IF connected
                          THEN /\ dt_download' =
                                      [DownloadStreamState_default EXCEPT
                                          !.start_timestamp_us = now_us]
                               /\ dt_state' = DlState("Downloading")
                               /\ dt_nof_downloads' = dt_nof_downloads + 1
                          ELSE /\ dt_download' = DownloadStreamState_default
                               /\ dt_state' = DlState("ErrorStartingDownload")
                               /\ dt_nof_downloads' = dt_nof_downloads
                       /\ UNCHANGED dt_params
                  [] dt_state.name = "Downloading" ->
                       LET r == handle_downloading(unpacked, read, now_us)
                       IN  /\ dt_received_bytes + read.chunk_size <= MaxDtBytes
                           /\ dt_now_us' = now_us
                           /\ dt_read' = Some(read)
                           /\ dt_received_bytes' = dt_received_bytes + read.chunk_size
                           /\ dt_added' = added
                           /\ dt_download' = r.download
                           /\ dt_state' = r.state
                           /\ dt_params' = r.params
                           /\ UNCHANGED dt_nof_downloads
                  [] dt_state.name = "PostDownload" ->
                       LET r == handle_post_download(unpacked, now_us)
                       IN  /\ dt_now_us' = now_us
                           /\ dt_added' = added
                           /\ dt_download' = unpacked
                           /\ dt_state' = r.state
                           /\ dt_params' = r.params
                           /\ UNCHANGED <<dt_received_bytes, dt_read, dt_nof_downloads>>
                  [] dt_state.name = "FinishDownload" ->
                       /\ dt_now_us' = now_us
                       /\ dt_state' = DlSleepMs(BETWEEN_DOWNLOADS_SLEEP_TIME_MS, "StartDownload")
                       /\ dt_params' = None
                       /\ UNCHANGED <<dt_download, dt_received_bytes, dt_read, dt_added,
                                      dt_nof_downloads>>
                  [] dt_state.name = "ErrorStartingDownload" ->
                       /\ dt_now_us' = now_us
                       /\ dt_state' = DlSleepMs(RECOVERY_SLEEP_TIME_MS, "StartDownload")
                       /\ UNCHANGED <<dt_download, dt_received_bytes, dt_read, dt_added,
                                      dt_params, dt_nof_downloads>>
    /\ UNCHANGED dt_pc
    /\ UNCHANGED notDt

\* check_not_stopped returns Err or a bus is disconnected: run returns
Dt_break ==
    /\ dt_pc = "loop"
    /\ dt_pc' = "done"
    /\ UNCHANGED <<dt_state, dt_now_us, dt_download, dt_received_bytes, dt_read, dt_added,
                   dt_params, dt_nof_downloads, dt_latest_dcis>>
    /\ UNCHANGED notDt

NextDt ==
    \/ Dt_loop
    \/ Dt_break

SpecDt == InitDt /\ [][NextDt]_vars

(***************************************************************************)
(* C34: in Downloading a WouldBlock read keeps the state unless no bytes   *)
(* have arrived and more than 2 s have passed since the start of the       *)
(* download; then the download ends in ErrorStartingDownload and is        *)
(* started again after a sleep of 2 s. A download that has received bytes  *)
(* is never ended by this timeout.                                         *)
(***************************************************************************)
DtTick(name) ==
    /\ dt_pc = "loop"
    /\ dt_state.name = name
    /\ dt_now_us' # dt_now_us

WouldBlockRead == DtTick("Downloading") /\ dt_read' = Some(DtRead("WouldBlock", 0, FALSE))

TimedOut == dt_now_us' - dt_download.start_timestamp_us > RESTART_TIMEOUT_US

RecoverySleep ==
    /\ DtTick("ErrorStartingDownload") =>
          dt_state' = DlSleepMs(RECOVERY_SLEEP_TIME_MS, "StartDownload")
    /\ DtTick("SleepMs") =>
          /\ dt_state' = DlState(dt_state.next_state)
          /\ dt_now_us' >= dt_now_us + dt_state.sleep_time_ms * TIME_MS_TO_US_FACTOR

C34_ClaimedStep ==
    /\ WouldBlockRead =>
          IF dt_received_bytes = 0 /\ TimedOut
          THEN dt_state' = DlState("ErrorStartingDownload")
          ELSE dt_state' = DlState("Downloading")
    /\ RecoverySleep

C34_TimeoutWithoutBytes == [][C34_ClaimedStep]_vars

\* what holds: the timeout looks at timedata, which has an entry only for a
\* chunk with an RTT, or after one
C34_CodedStep ==
    /\ WouldBlockRead =>
          IF dt_download.timedata = << >> /\ TimedOut
          THEN dt_state' = DlState("ErrorStartingDownload")
          ELSE dt_state' = DlState("Downloading")
    /\ RecoverySleep

C34_TimeoutWithoutTimedata == [][C34_CodedStep]_vars

\* a download that received a chunk is ended by the timeout
C34_ReachedAbortWithBytes ==
    /\ dt_state = DlState("ErrorStartingDownload")
    /\ dt_read = Some(DtRead("WouldBlock", 0, FALSE))
    /\ dt_received_bytes > 0

\* exactly 2 s after the start nothing is ended
C34_ReachedAtLimit ==
    /\ dt_state = DlState("Downloading")
    /\ dt_read = Some(DtRead("WouldBlock", 0, FALSE))
    /\ dt_received_bytes = 0
    /\ dt_now_us - dt_download.start_timestamp_us = RESTART_TIMEOUT_US

(***************************************************************************)
(* C35: after EOF the downloader stays in PostDownload for 2 s before the  *)
(* DownloadFinishParameters are made, and the DCIs it receives in that     *)
(* time with a time_stamp later than finish_timestamp_us are added to the  *)
(* DCI counters of the download.                                           *)
(***************************************************************************)
StaysForPostDownloadTime ==
    DtTick("PostDownload") =>
        IF dt_now_us' < dt_download.finish_timestamp_us.value + POST_DOWNLOAD_TIME_US
        THEN dt_state' = DlState("PostDownload") /\ dt_params' = None
        ELSE /\ dt_state' = DlState("FinishDownload")
             /\ dt_params'.kind = "Some"
             /\ dt_params'.value.finish_timestamp_us = dt_download.finish_timestamp_us.value
             /\ dt_params'.value.dci_total_dl_bit = dt_download'.dci_total_dl_bit
             /\ dt_params'.value.dci_total_dl_prb_with_tbs =
                    dt_download'.dci_total_dl_prb_with_tbs

\* the DCIs of this iteration that satisfy P are the ones added
AddedAre(P(_)) ==
    LET stamps == [i \in 1 .. Len(dt_latest_dcis') |-> dt_latest_dcis'[i].time_stamp]
        added == SelectSeq(stamps, P)
    IN  /\ dt_added' = dt_added \o added
        /\ dt_download'.dci_total_dl_bit = dt_download.dci_total_dl_bit + 8 * Len(added)
        /\ dt_download'.dci_total_dl_prb_with_tbs =
               dt_download.dci_total_dl_prb_with_tbs + 2 * Len(added)

AfterFinish(t) == t > dt_download.finish_timestamp_us.value

UpToFinish(t) ==
    /\ t >= dt_download.start_timestamp_us
    /\ t <= dt_download.finish_timestamp_us.value

FromStart(t) == t >= dt_download.start_timestamp_us

C35_ClaimedStep ==
    /\ StaysForPostDownloadTime
    /\ DtTick("PostDownload") =>
          \A i \in 1 .. Len(dt_latest_dcis') :
              AfterFinish(dt_latest_dcis'[i].time_stamp) =>
                  /\ dt_added' # dt_added
                  /\ dt_download'.dci_total_dl_bit > dt_download.dci_total_dl_bit

C35_TrailingDcisAdded == [][C35_ClaimedStep]_vars

\* C35 as amended: the DCIs added in PostDownload are those stamped from the
\* start of the download up to its end
C35_AmendedStep ==
    /\ StaysForPostDownloadTime
    /\ DtTick("PostDownload") => AddedAre(UpToFinish)
    /\ DtTick("Downloading") => AddedAre(FromStart)

C35_LateDcisOfDownloadAdded == [][C35_AmendedStep]_vars

\* a download that is finished 2 s after EOF with a DCI that was added in
\* PostDownload and one that was not
C35_Witness ==
    /\ dt_state = DlState("FinishDownload")
    /\ dt_params.kind = "Some"
    /\ dt_now_us = dt_download.finish_timestamp_us.value + POST_DOWNLOAD_TIME_US
    /\ dt_added = <<dt_download.finish_timestamp_us.value>>
    /\ dt_params.value.dci_total_dl_bit = 8

C35_WitnessSkipped ==
    /\ dt_state = DlState("PostDownload")
    /\ Len(dt_latest_dcis) = 1
    /\ dt_latest_dcis[1].time_stamp = dt_download.finish_timestamp_us.value + 1
    /\ dt_added = << >>

(***************************************************************************)
(* SpecLg: the loop of the logger with the clock and the queue of          *)
(* LogMessages (logger.rs 137-189)                                         *)
(***************************************************************************)
LOGGER_STOP_TIME_DELAY_MS == 5000

MaxLgMessages == 3
MaxLgNow == 8000

\* what the clock may advance by from one iteration of the loop to the next:
\* thread::sleep(Duration::from_millis(DEFAULT_WORKER_SLEEP_US)) or more
LgTimeSteps == {50, 2500}

\* the explored runs take at most MaxLgShortTicks of the short steps
MaxLgShortTicks == 3

LgShortTicks(now_ms) == (now_ms % 2500) \div 50

LogMessage(id, queued_ms) == [id |-> id, queued_ms |-> queued_ms]

\* the logger after wait_for_running
InitLg ==
    /\ LgOthersIdle
    /\ lg_state = "Running"
    /\ lg_stop_time_init_option = None
    /\ lg_now_ms = 0
    /\ lg_pc = "loop"
    /\ lg_app_bus = << >>
    /\ lg_queue = << >>
    /\ lg_handled = << >>
    /\ lg_last_drain_ms = 0
    /\ lg_final = << >>

\* a worker logs: Logger::queue_log_message sends on the channel
Lg_queue_log_message ==
    /\ Len(lg_queue) + Len(lg_handled) < MaxLgMessages
    /\ lg_queue' = Append(lg_queue,
                          LogMessage(Len(lg_queue) + Len(lg_handled) + 1, lg_now_ms))
    /\ UNCHANGED <<lg_state, lg_stop_time_init_option, lg_now_ms, lg_pc, lg_app_bus,
                   lg_handled, lg_last_drain_ms, lg_final>>
    /\ UNCHANGED notLg

\* main.rs 252-255: the NotifyStop arm broadcasts Stopped
Lg_main_stopped ==
    /\ lg_app_bus = << >>
    /\ lg_stop_time_init_option = None
    /\ lg_state = "Running"
    /\ lg_pc = "loop"
    /\ lg_app_bus' = <<"Stopped">>
    /\ UNCHANGED <<lg_state, lg_stop_time_init_option, lg_now_ms, lg_pc, lg_queue,
                   lg_handled, lg_last_drain_ms, lg_final>>
    /\ UNCHANGED notLg

\* the StopLoggingSoon arm decides to break
stop_time_reached_mut(now_ms, stop_time_init) ==
    now_ms - stop_time_init > LOGGER_STOP_TIME_DELAY_MS

stop_time_reached(now_ms, stop_time_init) ==
    now_ms - stop_time_init >= LOGGER_STOP_TIME_DELAY_MS

\* one iteration of the loop of run; a break is followed by finish
Logger_tick ==
    /\ lg_pc = "loop"
    /\ \E step \in LgTimeSteps :
         LET now_ms == lg_now_ms + step
             stopped == lg_app_bus # << >> /\ Head(lg_app_bus) = "Stopped"
             state == IF stopped THEN "InitStopLoggingSoon" ELSE lg_state
             drained == /\ lg_queue' = << >>
                        /\ lg_handled' = lg_handled \o lg_queue
                        /\ lg_last_drain_ms' = now_ms
             left == /\ lg_pc' = "done"
                     /\ lg_final' = <<"Stopped">>
         IN  /\ now_ms <= MaxLgNow
             /\ LgShortTicks(now_ms) <= MaxLgShortTicks
             /\ lg_now_ms' = now_ms
             /\ lg_app_bus' = IF lg_app_bus = << >> THEN lg_app_bus ELSE Tail(lg_app_bus)
             /\ CASE state = "Running" ->
                       /\ drained
                       /\ UNCHANGED <<lg_state, lg_stop_time_init_option, lg_pc, lg_final>>
                  [] state = "Stopped" ->
                       /\ left
                       /\ UNCHANGED <<lg_state, lg_stop_time_init_option, lg_queue,
                                      lg_handled, lg_last_drain_ms>>
                  [] state = "InitStopLoggingSoon" ->
                       /\ lg_stop_time_init_option' = Some(now_ms)
                       /\ lg_state' = "StopLoggingSoon"
                       /\ UNCHANGED <<lg_pc, lg_queue, lg_handled, lg_last_drain_ms, lg_final>>
                  [] state = "StopLoggingSoon" ->
                       IF /\ lg_stop_time_init_option.kind = "Some"
                          /\ stop_time_reached(now_ms, lg_stop_time_init_option.value)
                       THEN /\ left
                            /\ UNCHANGED <<lg_state, lg_stop_time_init_option, lg_queue,
                                           lg_handled, lg_last_drain_ms>>
                       ELSE /\ drained
                            /\ UNCHANGED <<lg_state, lg_stop_time_init_option, lg_pc,
                                           lg_final>>
    /\ UNCHANGED notLg

NextLg ==
    \/ Lg_queue_log_message
    \/ Lg_main_stopped
    \/ Logger_tick

SpecLg == InitLg /\ [][NextLg]_vars

(***************************************************************************)
(* C36: after it has observed Stopped the logger drains its queue on every *)
(* tick of a window of 5 s that starts at the observation, leaves its loop *)
(* and sends Stopped only when the window has elapsed, and every message   *)
(* queued before the end of the window is handled.                         *)
(***************************************************************************)
LgTick == lg_pc = "loop" /\ lg_now_ms' # lg_now_ms

WindowEnd == lg_stop_time_init_option.value + LOGGER_STOP_TIME_DELAY_MS

LeavesAfterWindow ==
    /\ lg_final # << >> =>
          /\ lg_pc = "done"
          /\ lg_final = <<"Stopped">>
          /\ lg_stop_time_init_option.kind = "Some"
          /\ lg_now_ms >= WindowEnd

C36_AllHandled ==
    /\ LeavesAfterWindow
    /\ lg_pc = "done" =>
          \A i \in 1 .. Len(lg_queue) : ~(lg_queue[i].queued_ms < WindowEnd)

C36_DrainsInWindow ==
    LgTick /\ lg_state = "StopLoggingSoon" /\ lg_now_ms' < WindowEnd =>
        /\ lg_pc' = "loop"
        /\ lg_queue' = << >>
        /\ lg_handled' = lg_handled \o lg_queue

C36_GraceWindowHandlesAll == []C36_AllHandled /\ [][C36_DrainsInWindow]_vars

\* C36 as amended: the tick that finds the window over leaves without
\* draining, so what is handled is what was queued before the last drain
C36_HandledUntilLastDrain ==
    /\ LeavesAfterWindow
    /\ \A i \in 1 .. Len(lg_queue) : lg_queue[i].queued_ms >= lg_last_drain_ms
    /\ \A i \in 1 .. Len(lg_handled) : lg_handled[i].queued_ms < lg_last_drain_ms

C36_LastTick ==
    LgTick /\ lg_state = "StopLoggingSoon" /\ lg_app_bus = << >>
           /\ ~(lg_now_ms' < WindowEnd) =>
        /\ lg_pc' = "done"
        /\ lg_final' = <<"Stopped">>
        /\ UNCHANGED <<lg_queue, lg_handled>>

C36_ObservationTick ==
    LgTick /\ lg_app_bus = <<"Stopped">> =>
        /\ lg_stop_time_init_option' = Some(lg_now_ms')
        /\ lg_state' = "StopLoggingSoon"
        /\ UNCHANGED <<lg_queue, lg_handled, lg_pc>>

C36_GraceWindowHandlesUntilLastDrain ==
    /\ []C36_HandledUntilLastDrain
    /\ [][C36_DrainsInWindow /\ C36_LastTick /\ C36_ObservationTick]_vars

\* the logger has left exactly 5 s after the observation, one message was
\* handled in the window and one queued in the window is left
C36_Witness ==
    /\ lg_pc = "done"
    /\ lg_final = <<"Stopped">>
    /\ lg_now_ms = WindowEnd
    /\ Len(lg_queue) = 1
    /\ lg_queue[1].queued_ms < WindowEnd
    /\ lg_queue[1].queued_ms > lg_stop_time_init_option.value
    /\ \E i \in 1 .. Len(lg_handled) :
          lg_handled[i].queued_ms >= lg_stop_time_init_option.value


(***************************************************************************)
(* C40 as claimed: ModelHandler survives every MessageRnti it can receive: *)
(* for any cell-to-RNTI map, including a non-empty one with no entry for   *)
(* cell id 0, it records an RNTI and keeps running its loop, so run        *)
(* returns on shutdown and finish sends Stopped.                           *)
(***************************************************************************)
\* the only other way the thread dies in the loop: a metric round that is
\* due, with a DCI in the slice and a CellInfo without cells
MetricRoundPanics ==
    /\ mh_scenario # "TrackCellDciOnly"
    /\ mh_last_rnti'.kind = "Some"
    /\ mh_last_cell_info' = Some(<< >>)
    /\ mh_nof_dci' > 0
    /\ mh_now' - mh_last_metric_timestamp_us > mh_metric_sending_interval_us

C40_ClaimedStep ==
    mh_pc = "loop" /\ mh_pc' = "panic" => MetricRoundPanics

C40_SurvivesEveryRnti == [][C40_ClaimedStep]_vars

\* the thread has died in the iteration that received its first MessageRnti,
\* before any CellInfo: neither a later iteration nor finish follows
C40_ReachedPanic ==
    /\ mh_pc = "panic"
    /\ mh_seen = {"rnti"}
    /\ mh_last_rnti = Some(123)
    /\ mh_last_cell_info = None


(***************************************************************************)
(* C38: the supervisor broadcasts MainState::Stopped at most once, never   *)
(* broadcasts NotifyStop, and broadcasts nothing after Stopped (no         *)
(* UeConnectionReset either, even if NgControl still reports               *)
(* SuccessfulTriggerResponse); a SIGINT seen after Stopped does not change *)
(* the supervisor state.                                                   *)
(***************************************************************************)
C38_Bus ==
    \A i \in 1 .. Len(app_bus) :
        /\ app_bus[i] # "NotifyStop"
        /\ app_bus[i] = "Stopped" => i = Len(app_bus)

C38_AfterStopped ==
    app_state = "Stopped" =>
        /\ app_state' = "Stopped"
        /\ app_bus' = app_bus
        /\ app_bus[Len(app_bus)] = "Stopped"

C38_StoppedIsLast == []C38_Bus /\ [][C38_AfterStopped]_vars

\* after Stopped the precheck has read the SIGINT flag again, and a
\* SuccessfulTriggerResponse of NgControl is waiting in its channel
C38_Witness ==
    /\ app_state = "Stopped"
    /\ main_pc = "match"
    /\ sigint
    /\ chan["ngcontrol"] # << >>
    /\ Head(chan["ngcontrol"]) = "SuccessfulTriggerResponse"
    /\ app_bus = <<"Running", "Stopped">>


(***************************************************************************)
(* C37: at any time at most one sniffer process started by NgControl is    *)
(* alive: StartNgScope kills the previously started process before it      *)
(* spawns a new one, also when StartNgScope is re-entered after a failed   *)
(* spawn.                                                                  *)
(***************************************************************************)
C37_AtMostOne ==
    /\ Len(sniffers) <= 1
    /\ sniffers # << >> => ng_process_option = "Some"

StartNgScopeArm ==
    /\ pc["ngcontrol"] = "loop"
    /\ ngcontrol_state = "StartNgScope"
    /\ ngcontrol_state' # "StartNgScope"

C37_KillBeforeSpawn ==
    StartNgScopeArm /\ ng_process_option = "Some" =>
        /\ nof_kill' = nof_kill + 1
        /\ sniffers' = IF ngcontrol_state' = SleepMs("TriggerListenDci")
                       THEN <<ng_conf>> ELSE << >>

C37_AtMostOneSniffer == []C37_AtMostOne /\ [][C37_KillBeforeSpawn]_vars

\* the second sniffer runs alone: the first one was killed, the spawn failed,
\* and the re-entered arm killed again before the spawn that succeeded
C37_Witness ==
    /\ sniffers = <<2>>
    /\ nof_kill = 2
    /\ nof_spawn_failed = 0
    /\ ngcontrol_state = "CheckingCellInfo"

(***************************************************************************)
(* SpecFs: the DCI fetcher with its socket: CellDci frames arrive at any   *)
(* time and are read one per loop iteration (ngscope_controller.rs         *)
(* 286-341, 343-398; ngscope/mod.rs 49-55, 96-114)                         *)
(***************************************************************************)
MaxFsFrames == 4
MaxFsTriggers == 2

WaitStates == {WaitForServerAuth(0), WaitForServerAuth(1)}

\* let mut dci_state: LocalDciState = LocalDciState::WaitForServerAuth(0)
initial_dci_state_mut == WaitForServerAuth(0)

\* let mut dci_state: LocalDciState = LocalDciState::ListenForDci
initial_dci_state == "ListenForDci"

\* a well-formed CellDci frame, with the state of the fetcher and the number
\* of handshakes triggered when it arrived
FsFrame(id, arrived_in, arrived_triggers) ==
    [id |-> id, arrived_in |-> arrived_in, arrived_triggers |-> arrived_triggers]

\* a frame taken from the socket, with the arm that read it
FsRead(frame, read_in, read_triggers) ==
    [frame |-> frame, read_in |-> read_in, read_triggers |-> read_triggers]

InitFs ==
    /\ FsOthersIdle
    /\ fs_dci_state = initial_dci_state
    /\ fs_to_fetcher = << >>
    /\ fs_socket = << >>
    /\ fs_tx_dci = << >>
    /\ fs_consumed = << >>
    /\ fs_nof_frames = 0
    /\ fs_nof_triggers = 0
    /\ fs_nof_auths = 0

\* the sniffer sends a CellDci frame: it waits in the socket's buffer
Fs_frame_arrives ==
    /\ fs_dci_state # "done"
    /\ fs_nof_frames < MaxFsFrames
    /\ fs_nof_frames' = fs_nof_frames + 1
    /\ fs_socket' = Append(fs_socket,
                           FsFrame(fs_nof_frames + 1, fs_dci_state, fs_nof_triggers))
    /\ UNCHANGED <<fs_dci_state, fs_to_fetcher, fs_tx_dci, fs_consumed, fs_nof_triggers,
                   fs_nof_auths>>
    /\ UNCHANGED notFs

\* run, the TriggerListenDci arm: tx_dci_thread.send(SendInitial); the next
\* trigger follows the SuccessfulAuth of this one
Fs_trigger ==
    /\ fs_dci_state # "done"
    /\ fs_to_fetcher = << >>
    /\ fs_nof_triggers = fs_nof_auths
    /\ fs_nof_triggers < MaxFsTriggers
    /\ fs_nof_triggers' = fs_nof_triggers + 1
    /\ fs_to_fetcher' = <<"SendInitial">>
    /\ UNCHANGED <<fs_dci_state, fs_socket, fs_tx_dci, fs_consumed, fs_nof_frames,
                   fs_nof_auths>>
    /\ UNCHANGED notFs

\* finish of the controller: tx_dci_thread.send(Stop)
Fs_stop ==
    /\ fs_dci_state # "done"
    /\ fs_to_fetcher = << >>
    /\ fs_to_fetcher' = <<"Stop">>
    /\ UNCHANGED <<fs_dci_state, fs_socket, fs_tx_dci, fs_consumed, fs_nof_frames,
                   fs_nof_triggers, fs_nof_auths>>
    /\ UNCHANGED notFs

\* one iteration of the loop of run_dci_fetcher
Fs_loop ==
    /\ fs_dci_state # "done"
    /\ LET state == IF fs_to_fetcher # << >> THEN Head(fs_to_fetcher) ELSE fs_dci_state
           received == FsRead(Head(fs_socket), state, fs_nof_triggers)
       IN  /\ fs_to_fetcher' = << >>
           /\ CASE state = "Stop" ->
                     /\ fs_dci_state' = "done"
                     /\ UNCHANGED <<fs_socket, fs_tx_dci, fs_consumed, fs_nof_auths>>
                [] state = "SendInitial" ->
                     /\ \E start_sent \in BOOLEAN :
                           fs_dci_state' = IF start_sent THEN WaitForServerAuth(0)
                                           ELSE "SendInitial"
                     /\ UNCHANGED <<fs_socket, fs_tx_dci, fs_consumed, fs_nof_auths>>
                [] state = "SuccessfulAuth" ->
                     /\ fs_nof_auths' = fs_nof_auths + 1
                     /\ fs_dci_state' = "ListenForDci"
                     /\ UNCHANGED <<fs_socket, fs_tx_dci, fs_consumed>>
                [] state \in WaitStates ->
                     IF fs_socket = << >>
                     THEN /\ fs_dci_state' = state
                          /\ UNCHANGED <<fs_socket, fs_tx_dci, fs_consumed, fs_nof_auths>>
                     ELSE /\ fs_socket' = Tail(fs_socket)
                          /\ fs_consumed' = Append(fs_consumed, received)
                          /\ fs_dci_state' = server_auth_next(successful_auths_of(state))
                          /\ UNCHANGED <<fs_tx_dci, fs_nof_auths>>
                [] state = "ListenForDci" ->
                     /\ fs_dci_state' = state
                     /\ IF fs_socket = << >>
                        THEN UNCHANGED <<fs_socket, fs_tx_dci>>
                        ELSE /\ fs_socket' = Tail(fs_socket)
                             /\ fs_tx_dci' = Append(fs_tx_dci, received)
                     /\ UNCHANGED <<fs_consumed, fs_nof_auths>>
    /\ UNCHANGED <<fs_nof_frames, fs_nof_triggers>>
    /\ UNCHANGED notFs

NextFs ==
    \/ Fs_frame_arrives
    \/ Fs_trigger
    \/ Fs_stop
    \/ Fs_loop

SpecFs == InitFs /\ [][NextFs]_vars

(***************************************************************************)
(* C39 as claimed: CellDci frames that arrive while the fetcher is in      *)
(* WaitForServerAuth are consumed by the handshake check and are never     *)
(* broadcast on the DCI bus, whereas CellDci frames that arrive before the *)
(* first handshake is triggered are broadcast, the initial state being     *)
(* ListenForDci.                                                           *)
(***************************************************************************)
C39_ByArrival ==
    /\ \A i \in 1 .. Len(fs_tx_dci) : fs_tx_dci[i].frame.arrived_in \notin WaitStates
    /\ \A i \in 1 .. Len(fs_consumed) : fs_consumed[i].frame.arrived_triggers > 0

\* C39 as amended: what decides is the state in which a frame is read
C39_State ==
    /\ \A i \in 1 .. Len(fs_tx_dci) : fs_tx_dci[i].read_in = "ListenForDci"
    /\ \A i \in 1 .. Len(fs_consumed) :
          /\ fs_consumed[i].read_in \in WaitStates
          /\ fs_consumed[i].read_triggers > 0

FrameRead == fs_socket # << >> /\ fs_socket' = Tail(fs_socket)

C39_ReadStep ==
    /\ FrameRead /\ fs_nof_triggers = 0 =>
          /\ fs_tx_dci' = Append(fs_tx_dci, FsRead(Head(fs_socket), "ListenForDci", 0))
          /\ fs_consumed' = fs_consumed
    /\ FrameRead /\ fs_to_fetcher = << >> /\ fs_dci_state \in WaitStates =>
          /\ fs_tx_dci' = fs_tx_dci
          /\ Len(fs_consumed') = Len(fs_consumed) + 1
          /\ fs_consumed'[Len(fs_consumed')].frame = Head(fs_socket)
    /\ fs_socket' = fs_socket \/ FrameRead
          \/ fs_socket' = Append(fs_socket, fs_socket'[Len(fs_socket')])

C39_ByReadState == []C39_State /\ [][C39_ReadStep]_vars

\* a frame that arrived during the handshake was broadcast, and one that
\* arrived before the first trigger was taken by the handshake
C39_Witness ==
    /\ \E i \in 1 .. Len(fs_tx_dci) :
          /\ fs_tx_dci[i].frame.arrived_in \in WaitStates
          /\ fs_tx_dci[i].read_in = "ListenForDci"
    /\ \E i \in 1 .. Len(fs_consumed) :
          /\ fs_consumed[i].frame.arrived_triggers = 0
          /\ fs_consumed[i].read_in \in WaitStates
    /\ \E i \in 1 .. Len(fs_tx_dci) : fs_tx_dci[i].read_triggers = 0
====
